---- MODULE Spec2Model ----
(***************************************************************************)
(* BenWeather client: comparison cache, metric visibility configuration    *)
(* and comparison rendering (static/js/comparison.js, settings.js, api.js, *)
(* routing, dashboard, and the legacy bundle static/app.js).               *)
(*                                                                         *)
(* Strings that the code builds (location keys, comparison keys, cache     *)
(* keys, the hidden= query parameter) are modelled as sequences of string  *)
(* tokens, so that concatenation, sorting and joining are computed and     *)
(* equality of two keys is equality of the strings the code would build.   *)
(***************************************************************************)
EXTENDS Integers, Sequences, FiniteSets, Bags, TLC

\* ------------------------------------------------------------------------
\* Sequence helpers
\* ------------------------------------------------------------------------
Range(s) == {s[i] : i \in 1..Len(s)}

Reverse(s) == [i \in 1..Len(s) |-> s[Len(s) + 1 - i]]

RECURSIVE Flatten(_)
Flatten(ss) == IF ss = <<>> THEN <<>> ELSE Head(ss) \o Flatten(Tail(ss))

\* Array.prototype.filter over a sequence
RECURSIVE FilterSeq(_, _)
FilterSeq(s, keep) ==
    IF s = <<>> THEN <<>>
    ELSE (IF Head(s) \in keep THEN <<Head(s)>> ELSE <<>>) \o FilterSeq(Tail(s), keep)

\* s with its i-th element (1-based) removed: Array.prototype.splice(i - 1, 1)
RemoveAt(s, i) == [j \in 1..(Len(s) - 1) |-> IF j < i THEN s[j] ELSE s[j + 1]]

\* ------------------------------------------------------------------------
\* Strings and their order (Array.prototype.sort without a comparator
\* orders strings by UTF-16 code units)
\* ------------------------------------------------------------------------
\* The ten metric keys in ascending code-unit order.
MetricNamesAscending ==
    << "avg_daylight_hours", "avg_sunset_min", "cozy_overcast_days",
       "freezing_days", "hot_days", "overcast_days", "rainy_days",
       "snow_days", "sticky_days", "sunshine_hours" >>

NameRank(n) == CHOOSE i \in 1..Len(MetricNamesAscending) : MetricNamesAscending[i] = n

\* Latitudes and longitudes of the model are single decimal digits; their
\* string form is one character, "," sorts below every digit.
Digits == 0..9

TokenRank(t) == IF t = "," THEN 0 ELSE 1 + (CHOOSE d \in Digits : ToString(d) = t)

\* a < b for two location-key strings (token sequences), code-unit order
RECURSIVE KeyLess(_, _)
KeyLess(a, b) ==
    IF b = <<>> THEN FALSE
    ELSE IF a = <<>> THEN TRUE
    ELSE IF TokenRank(Head(a)) # TokenRank(Head(b))
         THEN TokenRank(Head(a)) < TokenRank(Head(b))
         ELSE KeyLess(Tail(a), Tail(b))

\* [...names].sort() : insertion into an ascending sequence
RECURSIVE InsertName(_, _)
InsertName(n, s) ==
    IF s = <<>> THEN <<n>>
    ELSE IF NameRank(n) <= NameRank(Head(s)) THEN <<n>> \o s
    ELSE <<Head(s)>> \o InsertName(n, Tail(s))

RECURSIVE SortNames(_)
SortNames(s) == IF s = <<>> THEN <<>> ELSE InsertName(Head(s), SortNames(Tail(s)))

\* names.join(",")
RECURSIVE JoinComma(_)
JoinComma(s) ==
    IF s = <<>> THEN <<>>
    ELSE IF Len(s) = 1 THEN <<Head(s)>>
    ELSE <<Head(s), ",">> \o JoinComma(Tail(s))

\* ------------------------------------------------------------------------
\* Metric configuration (settings.js)
\* ------------------------------------------------------------------------
METRIC_LIST ==
    << "sunshine_hours", "rainy_days", "overcast_days", "cozy_overcast_days",
       "snow_days", "freezing_days", "hot_days", "sticky_days",
       "avg_daylight_hours", "avg_sunset_min" >>

MetricKeys == Range(METRIC_LIST)

Modes == {"scored", "display", "hidden"}

\* mode of a metric row when the overlay is opened
InitialMode(comp, m) ==
    IF m \in Range(comp.hidden_metrics) THEN "hidden"
    ELSE IF m \in Range(comp.display_metrics) THEN "display"
    ELSE "scored"

\* a two-way toggle between scored and hidden
NextMode_TwoWay(cur) ==
    IF cur = "scored" THEN "hidden" ELSE "scored"

\* Cycle: scored -> display -> hidden -> scored
NextMode(cur) ==
    IF cur = "scored" THEN "display" ELSE IF cur = "display" THEN "hidden" ELSE "scored"

\* newHidden / newDisplay: the rows with the given mode, in row order
RowsWithMode(modes, mode) == FilterSeq(METRIC_LIST, {m \in MetricKeys : modes[m] = mode})

\* ------------------------------------------------------------------------
\* Keys (api.js comparisonKey, comparison.js compCacheKey / hiddenParam)
\* ------------------------------------------------------------------------
LocKey(loc) == <<ToString(loc.lat), ",", ToString(loc.lon)>>

\* the pair key without the sort
comparisonKey_Unsorted(comp) == LocKey(comp.loc1) \o <<"|">> \o LocKey(comp.loc2)

comparisonKey(comp) ==
    LET k1 == LocKey(comp.loc1)
        k2 == LocKey(comp.loc2)
    IN  IF KeyLess(k2, k1) THEN k2 \o <<"|">> \o k1 ELSE k1 \o <<"|">> \o k2

NotScoredList(comp) == comp.hidden_metrics \o comp.display_metrics

\* the key without the configuration suffix
compCacheKey_NoConfig(comp) == comparisonKey(comp)

compCacheKey(comp) ==
    LET base      == comparisonKey(comp)
        notScored == JoinComma(SortNames(NotScoredList(comp)))
    IN  IF notScored # <<>> THEN base \o <<"#">> \o notScored ELSE base

\* the key the metric-row click handler computes inline before it deletes
oldCacheKey(comp) ==
    LET oldNotScored == JoinComma(SortNames(comp.hidden_metrics \o comp.display_metrics))
        baseKey      == comparisonKey(comp)
    IN  IF oldNotScored # <<>> THEN baseKey \o <<"#">> \o oldNotScored ELSE baseKey

hiddenParam(comp) ==
    LET h == comp.hidden_metrics \o comp.display_metrics
    IN  IF Len(h) > 0 THEN <<"&hidden=">> \o JoinComma(h) ELSE <<>>

\* the unordered location pair and the non-scored set of a comparison
UnorderedPair(comp) == {comp.loc1, comp.loc2}
NotScoredSet(comp) == Range(comp.hidden_metrics) \cup Range(comp.display_metrics)

\* ------------------------------------------------------------------------
\* Bounds of the model
\* ------------------------------------------------------------------------
\* the saved locations (lat/lon of each); fixed after loadSettings
Locations == << [lat |-> 1, lon |-> 2], [lat |-> 2, lon |-> 1], [lat |-> 3, lon |-> 3] >>

\* (loc1, loc2) selections the user makes in the add-comparison overlay
AddChoices == { <<2, 1>>, <<1, 2>>, <<1, 1>> }

\* metric rows the user clicks in the comparison config overlay
ToggleMetrics == {"rainy_days"}

\* /api/comparison requests in flight at the same time
MaxInflight == 2

\* ------------------------------------------------------------------------
\* State
\* ------------------------------------------------------------------------
VARIABLES
    locations,             \* state.locations
    comparisons,           \* state.comparisons
    cardOrder,             \* state.cardOrder
    comparisonDataMap,     \* state.comparisonDataMap: cache key -> response
    showingComparisonIdx,  \* state.showingComparisonIdx (0-based, -1 = none)
    container,             \* what #weather-container shows
    inflight,              \* bag of /api/comparison fetches not yet completed
    awaiting,              \* the handler suspended on an awaited save, if any
    overlay,               \* settings overlay / comparison config overlay
    savedComparisons,      \* body of the last POST /api/settings/comparisons
    handled,               \* the response (or failure) most recently handed to a
                           \* renderer or dropped by a response handler (history)
    toggleHist,            \* per comparison: a metric was toggled since the
                           \* comparison was last viewed (history)
    activeLocation,        \* state.activeLocation (<<>> = null)
    activeWeather,         \* state.activeWeather: the location it was loaded for
                           \* (<<>> = null)
    background,            \* refreshCurrent, refreshAlerts and fetchAndRenderDetail
                           \* calls suspended on a fetch
    script,                \* the script the page runs: "modules" (js/) or "app.js"
    touch                  \* directions of the swipes handled by touchend (history)

mainVars == << locations, comparisons, cardOrder, comparisonDataMap,
               showingComparisonIdx, container, inflight, awaiting, overlay,
               savedComparisons, handled, toggleHist,
               activeLocation, activeWeather, background, script, touch >>

\* inputs and results of the pure functions exercised on their own
VARIABLES
    keyComp,               \* comparison passed to compCacheKey
    keyPrev,               \* the comparison passed before the last change
    keyOut                 \* the cache key computed for keyComp

keyVars == << keyComp, keyPrev, keyOut >>

VARIABLES
    rowIn,                 \* arguments of renderCompRows: m1, m2, hidden, displayOnly
    rowOut,                \* rows returned by renderCompRows (<<>> before the call)
    legacyOut              \* rows returned by _renderCompRows (<<>> before the call)

rowVars == << rowIn, rowOut, legacyOut >>

VARIABLES
    arrays,                \* heap of the arrays of the comparison view
    viewData,              \* the cached ComparisonResult (data)
    compViewStyle,             \* state.comparisons[compIdx].view_style ("" = none)
    viewSaved,             \* view_style carried by the last save
    viewOut,               \* container.innerHTML (<<>> before the first render)
    viewLog                \* the view styles rendered so far (history)

viewVars == << arrays, viewData, compViewStyle, viewSaved, viewOut, viewLog >>

VARIABLES
    scoreIn,               \* request to /api/comparison: month metrics and lists
    scoreData,             \* the ComparisonResult the server answers with
    scoreOut               \* container.innerHTML after renderComparison

scoreVars == << scoreIn, scoreData, scoreOut >>

VARIABLES
    settings,              \* what GET /api/settings answers: locations,
                           \* comparisons, card_order
    savedCardOrder,        \* body of the POST /api/settings/card-order of the
                           \* last page load (<<>> = none sent)
    loads                  \* page loads so far

orderVars == << settings, savedCardOrder, loads >>

VARIABLES
    chronoIn,              \* data.months passed to the chronological grouping
    chronoOut,             \* groups rendered by renderChronoMonths (<<>> before)
    chronoLegacy           \* groups rendered by _renderComparison of app.js

chronoVars == << chronoIn, chronoOut, chronoLegacy >>

VARIABLES
    streakIn,              \* the comparison summarised: data.months and the
                           \* two locations (<<>> = none)
    streakOut,             \* innerHTML that loadComparisonSummaryForIdx sets
    streakLegacy           \* innerHTML that _loadComparisonSummaryForIdx sets

streakVars == << streakIn, streakOut, streakLegacy >>

VARIABLES
    searchFirst,           \* state.locations when the search overlay opened
    searchLog              \* the search results clicked since, in order (history)

searchVars == << searchFirst, searchLog >>

lateVars == << scoreVars, orderVars, chronoVars, streakVars, searchVars >>

pureVars == << keyVars, rowVars, viewVars, lateVars >>

\* everything but the state of one group
scoreRest == << mainVars, keyVars, rowVars, viewVars, orderVars, chronoVars, streakVars, searchVars >>

orderRest == << keyVars, rowVars, viewVars, scoreVars, chronoVars, streakVars, searchVars >>

chronoRest == << mainVars, keyVars, rowVars, viewVars, scoreVars, orderVars, streakVars, searchVars >>

streakRest == << mainVars, keyVars, rowVars, viewVars, scoreVars, orderVars, chronoVars, searchVars >>

searchRest == << keyVars, rowVars, viewVars, scoreVars, orderVars, chronoVars, streakVars >>

vars == << mainVars, pureVars >>

\* the mutable client state as one value, so that handlers compose
World ==
    [ locations |-> locations, comparisons |-> comparisons,
      cardOrder |-> cardOrder, map |-> comparisonDataMap,
      showing |-> showingComparisonIdx, container |-> container,
      inflight |-> inflight, awaiting |-> awaiting, overlay |-> overlay,
      saved |-> savedComparisons, handled |-> handled, hist |-> toggleHist,
      active |-> activeLocation, weather |-> activeWeather,
      background |-> background, script |-> script, touch |-> touch ]

Assigns(w) ==
    /\ locations' = w.locations
    /\ comparisons' = w.comparisons
    /\ cardOrder' = w.cardOrder
    /\ comparisonDataMap' = w.map
    /\ showingComparisonIdx' = w.showing
    /\ container' = w.container
    /\ inflight' = w.inflight
    /\ awaiting' = w.awaiting
    /\ overlay' = w.overlay
    /\ savedComparisons' = w.saved
    /\ handled' = w.handled
    /\ toggleHist' = w.hist
    /\ activeLocation' = w.active
    /\ activeWeather' = w.weather
    /\ background' = w.background
    /\ script' = w.script
    /\ touch' = w.touch

Becomes(w) == Assigns(w) /\ UNCHANGED pureVars

Starts(w) ==
    /\ locations = w.locations
    /\ comparisons = w.comparisons
    /\ cardOrder = w.cardOrder
    /\ comparisonDataMap = w.map
    /\ showingComparisonIdx = w.showing
    /\ container = w.container
    /\ inflight = w.inflight
    /\ awaiting = w.awaiting
    /\ overlay = w.overlay
    /\ savedComparisons = w.saved
    /\ handled = w.handled
    /\ toggleHist = w.hist
    /\ activeLocation = w.active
    /\ activeWeather = w.weather
    /\ background = w.background
    /\ script = w.script
    /\ touch = w.touch

\* state.comparisons[idx], as a set: empty when idx is out of range
CompAt(w, idx) ==
    IF idx >= 0 /\ idx < Len(w.comparisons) THEN {w.comparisons[idx + 1]} ELSE {}

\* ------------------------------------------------------------------------
\* api.js
\* ------------------------------------------------------------------------
\* {loc1, loc2} of state.comparisons[idx], or the empty set for null
getComparisonLocsForIdx(w, idx) ==
    {[loc1 |-> comp.loc1, loc2 |-> comp.loc2] : comp \in CompAt(w, idx)}

\* state.comparisons.findIndex(c => comparisonKey(c) === key), 0-based, -1 if none
FindCompIdx(w, key) ==
    LET hits == {i \in 1..Len(w.comparisons) : comparisonKey(w.comparisons[i]) = key}
    IN  IF hits = {} THEN -1 ELSE (CHOOSE i \in hits : \A j \in hits : i <= j) - 1

\* saveComparisons: the body is serialised when the request is issued
saveComparisons(w) == [w EXCEPT !.saved = w.comparisons]

\* the two push loops of rebuildCardOrderIfNeeded: items are the cards of
\* state.locations, then of state.comparisons
RECURSIVE PushMissing(_, _)
PushMissing(cards, items) ==
    IF items = << >> THEN cards
    ELSE IF Head(items).key \in {cards[i].key : i \in DOMAIN cards}
    THEN PushMissing(cards, Tail(items))
    ELSE PushMissing(Append(cards, Head(items)), Tail(items))

\* rebuildCardOrderIfNeeded without the removal of stale entries
rebuildCardOrderIfNeeded_KeepsStale(locs, comps, cards) ==
    LET items  == [i \in DOMAIN locs |-> [type |-> "loc", key |-> LocKey(locs[i])]]
                  \o [i \in DOMAIN comps |-> [type |-> "comp", key |-> comparisonKey(comps[i])]]
        pushed == PushMissing(cards, items)
    IN  [cardOrder |-> pushed, changed |-> Len(pushed) # Len(cards)]

\* rebuildCardOrderIfNeeded (_rebuildCardOrderIfNeeded of app.js is the same
\* code): the new state.cardOrder and whether saveCardOrder is called
rebuildCardOrderIfNeeded(locs, comps, cards) ==
    LET items  == [i \in DOMAIN locs |-> [type |-> "loc", key |-> LocKey(locs[i])]]
                  \o [i \in DOMAIN comps |-> [type |-> "comp", key |-> comparisonKey(comps[i])]]
        pushed == PushMissing(cards, items)
        kept   == FilterSeq(pushed, Range(items))
    IN  [cardOrder |-> kept, changed |-> Len(pushed) # Len(cards) \/ Len(kept) # Len(pushed)]

\* a handler suspended on an awaited save
Await(w, cont) == [w EXCEPT !.awaiting = {cont}]

Resumed(w) == [w EXCEPT !.awaiting = {}]

\* ------------------------------------------------------------------------
\* comparison.js
\* ------------------------------------------------------------------------
\* fetch(`/api/comparison?lat1=..&lon1=..&lat2=..&lon2=..${hiddenParam(comp)}`)
FetchComparison(w, op, idx, comp) ==
    [w EXCEPT !.inflight = @ (+) SetToBag(
        {[ op |-> op, idx |-> idx, cacheKey |-> compCacheKey(comp),
           loc1 |-> comp.loc1, loc2 |-> comp.loc2, hidden |-> hiddenParam(comp) ]})]

\* the JSON body of a 200 response to request r; shape "malformed" is a body
\* without a months array
ResponseData(r, shape) ==
    [ loc1 |-> r.loc1, loc2 |-> r.loc2, hidden |-> r.hidden, shape |-> shape ]

setCompSub(w, ci, text) ==
    IF w.container.kind = "dashboard" /\ ci \in DOMAIN w.container.subs
    THEN [w EXCEPT !.container.subs[ci] = text]
    ELSE w

\* lines 42-64 of loadComparisonSummaryForIdx: [...data.months] throws a
\* TypeError when data has no months array, and the subtitle is left as it is
SummariseInto(w, ci, data, from) ==
    LET w1 == [w EXCEPT !.handled = [from |-> from, by |-> "summary", shape |-> data.shape]]
    IN  IF data.shape = "malformed" THEN w1 ELSE setCompSub(w1, ci, "summary")

\* loadComparisonSummaryForIdx up to its first await
loadComparisonSummaryForIdx(w, ci) ==
    IF getComparisonLocsForIdx(w, ci) = {} THEN w
    ELSE LET comp     == w.comparisons[ci + 1]
             cacheKey == compCacheKey(comp)
         IN  IF cacheKey \in DOMAIN w.map
             THEN SummariseInto(w, ci, w.map[cacheKey], "cache")
             ELSE FetchComparison(w, "summary", ci, comp)

RECURSIVE LoadSummariesFrom(_, _)
LoadSummariesFrom(w, ci) ==
    IF ci >= Len(w.comparisons) THEN w
    ELSE LoadSummariesFrom(loadComparisonSummaryForIdx(w, ci), ci + 1)

loadAllComparisonSummaries(w) == LoadSummariesFrom(w, 0)

\* renderComparisonContent -> renderComparison: data.months.length throws a
\* TypeError for a body without months, before the container is touched
renderComparisonContent(w, data, idx, from) ==
    LET w1 == [w EXCEPT !.handled = [from |-> from, by |-> "view", shape |-> data.shape]]
    IN  IF data.shape = "malformed" THEN w1
        ELSE [w1 EXCEPT !.container = [kind |-> "content", idx |-> idx, data |-> data]]

\* renderComparisonView up to its first await
renderComparisonView(w, idx) ==
    IF getComparisonLocsForIdx(w, idx) = {}
    THEN [w EXCEPT !.container = [kind |-> "need2"]]
    ELSE LET comp     == w.comparisons[idx + 1]
             cacheKey == compCacheKey(comp)
             wv       == [w EXCEPT !.hist[idx + 1] = FALSE]
         IN  IF cacheKey \in DOMAIN w.map
             THEN renderComparisonContent(wv, w.map[cacheKey], idx, "cache")
             ELSE FetchComparison([wv EXCEPT !.container = [kind |-> "loading", idx |-> idx]],
                                  "view", idx, comp)

\* ------------------------------------------------------------------------
\* dashboard.js
\* ------------------------------------------------------------------------
\* indices of the comparisons that get a card: for each comp card of
\* cardOrder, the first comparison with that key
CompCardIdxs(w) ==
    {FindCompIdx(w, w.cardOrder[i].key) :
        i \in {j \in 1..Len(w.cardOrder) : w.cardOrder[j].type = "comp"}} \ {-1}

renderDashboard(w) ==
    IF Len(w.cardOrder) = 0
    THEN [w EXCEPT !.container = [kind |-> "empty"]]
    ELSE loadAllComparisonSummaries(
            [w EXCEPT !.container =
                [kind |-> "dashboard", subs |-> [ci \in CompCardIdxs(w) |-> "Loading..."]]])

\* ------------------------------------------------------------------------
\* routing.js
\* ------------------------------------------------------------------------
\* detail.js renderDetail: the spinner while activeWeather is null
renderDetail(w) ==
    IF w.active = << >> THEN w
    ELSE [w EXCEPT !.container = [kind |-> "detail", loc |-> w.active[1], weather |-> w.weather]]

renderView(w) ==
    IF w.showing >= 0 THEN renderComparisonView(w, w.showing)
    ELSE IF w.active # << >> THEN renderDetail(w)
    ELSE renderDashboard(w)

\* navigateToDetail, up to the await of fetchAndRenderDetail
navigateToDetail(w, loc) ==
    LET w1 == renderView([w EXCEPT !.showing = -1, !.active = << loc >>, !.weather = << >>])
    IN  [w1 EXCEPT !.background = @ \cup {[op |-> "loadWeather", loc |-> loc]}]

navigateToDashboard(w) ==
    renderView([w EXCEPT !.active = << >>, !.weather = << >>, !.showing = -1])

navigateToComparison(w, idx) ==
    renderView([w EXCEPT !.active = << >>, !.weather = << >>, !.showing = idx])

\* ------------------------------------------------------------------------
\* api.js: the card shown, navigation by card, background refreshes
\* ------------------------------------------------------------------------
\* state.cardOrder.findIndex(c => c.type === type && c.key === key), -1 if none
currentCardIdx(w) ==
    LET Find(type, key) ==
            LET hits == {i \in 1..Len(w.cardOrder) :
                            w.cardOrder[i].type = type /\ w.cardOrder[i].key = key}
            IN  IF hits = {} THEN -1 ELSE (CHOOSE i \in hits : \A j \in hits : i <= j) - 1
    IN  IF w.showing >= 0
        THEN IF CompAt(w, w.showing) = {} THEN -1
             ELSE Find("comp", comparisonKey(w.comparisons[w.showing + 1]))
        ELSE IF w.active # << >> THEN Find("loc", LocKey(w.active[1]))
        ELSE -1

navigateToCard_SkipsOne(w, cardIdx) ==
    IF cardIdx + 1 < 0 \/ cardIdx + 1 >= Len(w.cardOrder) THEN w
    ELSE LET card == w.cardOrder[cardIdx + 2]
             locs == {i \in 1..Len(w.locations) : LocKey(w.locations[i]) = card.key}
         IN  IF card.type = "loc"
             THEN IF locs = {} THEN w
                  ELSE navigateToDetail(w, w.locations[CHOOSE i \in locs : \A j \in locs : i <= j])
             ELSE IF FindCompIdx(w, card.key) >= 0
                  THEN navigateToComparison(w, FindCompIdx(w, card.key))
                  ELSE w

navigateToCard(w, cardIdx) ==
    IF cardIdx < 0 \/ cardIdx >= Len(w.cardOrder) THEN w
    ELSE LET card == w.cardOrder[cardIdx + 1]
             locs == {i \in 1..Len(w.locations) : LocKey(w.locations[i]) = card.key}
         IN  IF card.type = "loc"
             THEN IF locs = {} THEN w
                  ELSE navigateToDetail(w, w.locations[CHOOSE i \in locs : \A j \in locs : i <= j])
             ELSE IF FindCompIdx(w, card.key) >= 0
                  THEN navigateToComparison(w, FindCompIdx(w, card.key))
                  ELSE w

\* refreshCurrent up to its fetch
refreshCurrent(w) == [w EXCEPT !.background = @ \cup {[op |-> "refreshCurrent"]}]

\* refreshCurrent (js/api.js) and _refreshCurrent (app.js) after the fetch;
\* a rejected fetch or an unparsable body is only logged
refreshedCurrent(w, ok) ==
    LET w1 == [w EXCEPT !.background = @ \ {[op |-> "refreshCurrent"]}]
    IN  IF ~ok THEN w1
        ELSE IF w1.script = "modules"
        THEN IF w1.active = << >> /\ w1.showing < 0 THEN renderDashboard(w1) ELSE w1
        ELSE IF w1.active = << >> THEN renderDashboard(w1) ELSE w1

\* refreshAlerts after the fetch for state.locations[at] (1-based): the next
\* location's fetch, or the lines after the loop
fetchedAlerts(w, at) ==
    LET w1 == [w EXCEPT !.background = @ \ {[op |-> "refreshAlerts", at |-> at]}]
    IN  IF at < Len(w1.locations)
        THEN [w1 EXCEPT !.background = @ \cup {[op |-> "refreshAlerts", at |-> at + 1]}]
        ELSE IF w1.script = "modules"
        THEN IF w1.active = << >> /\ w1.showing < 0 THEN renderDashboard(w1) ELSE w1
        ELSE IF w1.active = << >> THEN renderDashboard(w1) ELSE w1

\* fetchAndRenderDetail(loc) after `await nav.loadWeather(loc)`
loadedWeather(w, loc, ok) ==
    LET w1 == [w EXCEPT !.background = @ \ {[op |-> "loadWeather", loc |-> loc]}]
    IN  IF ~ok THEN [w1 EXCEPT !.container = [kind |-> "unable"]]
        ELSE renderDetail([w1 EXCEPT !.weather = << loc >>])

\* ------------------------------------------------------------------------
\* gestures.js: touchend with |dx| > 50 and |dx| > |dy| outside an overlay
\* ------------------------------------------------------------------------
swipe(w, dir) ==
    LET ci == currentCardIdx(w)
        n  == Len(w.cardOrder)
        w1 == [w EXCEPT !.touch = Append(@, dir)]
    IN  IF n = 0 THEN w1
        ELSE IF ci = -1 /\ w.active = << >> /\ w.showing < 0
        THEN IF dir = "left" THEN navigateToCard(w1, 0) ELSE navigateToCard(w1, n - 1)
        ELSE IF ci >= 0
        THEN IF dir = "left"
             THEN IF ci < n - 1 THEN navigateToCard(w1, ci + 1) ELSE navigateToDashboard(w1)
             ELSE IF ci > 0 THEN navigateToCard(w1, ci - 1) ELSE navigateToDashboard(w1)
        ELSE w1

\* ------------------------------------------------------------------------
\* settings.js
\* ------------------------------------------------------------------------
ClosedOverlay == [settings |-> FALSE, config |-> FALSE, ci |-> -1, modes |-> <<>>]

NoOverlay(w) == ~w.overlay.settings /\ ~w.overlay.config

openSettings(w) == [w EXCEPT !.overlay.settings = TRUE]

openCompConfig(w, ci) ==
    IF getComparisonLocsForIdx(w, ci) = {} THEN w
    ELSE [w EXCEPT !.overlay.config = TRUE, !.overlay.ci = ci,
                   !.overlay.modes = [m \in MetricKeys |-> InitialMode(w.comparisons[ci + 1], m)]]

\* the click handler without the comparisonDataMap.delete
ClickMetricRow_KeepsEntry(w, m) ==
    LET ci      == w.overlay.ci
        modes   == [w.overlay.modes EXCEPT ![m] = NextMode(@)]
        w1      == [w EXCEPT !.overlay.modes = modes,
                             !.hist[ci + 1] = TRUE]
        w2      == [w1 EXCEPT !.comparisons[ci + 1].hidden_metrics = RowsWithMode(modes, "hidden"),
                              !.comparisons[ci + 1].display_metrics = RowsWithMode(modes, "display")]
    IN  Await(saveComparisons(w2), [op |-> "toggle", ci |-> ci])

\* the metric row click handler up to `await nav.saveComparisons()`; comp is
\* the object captured by openCompConfig, which is state.comparisons[ci]
\* as long as no comparison is deleted while the overlay is open
ClickMetricRow(w, m) ==
    LET ci      == w.overlay.ci
        comp    == w.comparisons[ci + 1]
        modes   == [w.overlay.modes EXCEPT ![m] = NextMode(@)]
        key     == oldCacheKey(comp)
        w1      == [w EXCEPT !.overlay.modes = modes,
                             !.map = [k \in (DOMAIN w.map) \ {key} |-> w.map[k]],
                             !.hist[ci + 1] = TRUE]
        w2      == [w1 EXCEPT !.comparisons[ci + 1].hidden_metrics = RowsWithMode(modes, "hidden"),
                              !.comparisons[ci + 1].display_metrics = RowsWithMode(modes, "display")]
    IN  Await(saveComparisons(w2), [op |-> "toggle", ci |-> ci])

\* ------------------------------------------------------------------------
\* add-comparison (app.js _saveNewComparison)
\* ------------------------------------------------------------------------
\* _saveNewComparison without the search for an existing comparison
saveNewComparison_NoDuplicateCheck(w, addCompLoc1, addCompLoc2) ==
    IF addCompLoc1 = << >> \/ addCompLoc2 = << >> THEN w
    ELSE IF addCompLoc1 = addCompLoc2 THEN w
    ELSE LET newComp == [loc1 |-> addCompLoc1, loc2 |-> addCompLoc2,
                         hidden_metrics |-> <<>>, display_metrics |-> <<>>]
             newKey  == comparisonKey(newComp)
         IN  Await(saveComparisons(
                    [w EXCEPT !.comparisons = Append(@, newComp),
                              !.hist = Append(@, FALSE),
                              !.cardOrder = Append(@, [type |-> "comp", key |-> newKey])]),
                    [op |-> "added"])

\* the slots are << >> (null) until a location is picked
saveNewComparison(w, addCompLoc1, addCompLoc2) ==
    IF addCompLoc1 = << >> \/ addCompLoc2 = << >> THEN w
    ELSE IF addCompLoc1 = addCompLoc2 THEN w
    ELSE LET newComp == [loc1 |-> addCompLoc1, loc2 |-> addCompLoc2,
                         hidden_metrics |-> <<>>, display_metrics |-> <<>>]
             newKey  == comparisonKey(newComp)
         IN  IF FindCompIdx(w, newKey) >= 0 THEN w
             ELSE Await(saveComparisons(
                    [w EXCEPT !.comparisons = Append(@, newComp),
                              !.hist = Append(@, FALSE),
                              !.cardOrder = Append(@, [type |-> "comp", key |-> newKey])]),
                    [op |-> "added"])

\* ------------------------------------------------------------------------
\* comparison.js: the rows of one month card.  A metric value is <<>>
\* (null) or <<n>>; avg_high and avg_low are in tenths of a degree.
\* ------------------------------------------------------------------------
Null == <<>>

Num(v) == v[1]

\* x || 0
OrZero(v) == IF v = Null THEN 0 ELSE Num(v)

Abs(x) == IF x < 0 THEN 0 - x ELSE x

\* Math.round of a non-negative value given in tenths
Round(tenths) == (tenths + 5) \div 10

\* minutes needed between the two average sunsets to award a winner
SunsetThreshold == 10

minutesToTime(mins) ==
    LET h0 == mins \div 60
        m  == mins % 60
        ap == IF h0 >= 12 THEN "PM" ELSE "AM"
        h  == IF h0 % 12 = 0 THEN 12 ELSE h0 % 12
    IN  IF m = 0 THEN <<ToString(h), ap>>
        ELSE <<ToString(h), ":">> \o (IF m < 10 THEN <<"0">> ELSE <<>>) \o <<ToString(m), ap>>

Hours(v) == IF v = Null THEN <<"null", "h">> ELSE <<ToString(Num(v)), "h">>

Plain(n) == <<ToString(n)>>

\* mark1 is the check mark before the label, mark2 the one after it
row_NoDirection(disp1, label, disp2, higherWins, n1, n2, noMarks) ==
    LET marked == ~noMarks /\ n1 # n2
    IN  [ disp1 |-> disp1, label |-> label, disp2 |-> disp2,
          mark1 |-> marked /\ n1 > n2,
          mark2 |-> marked /\ ~(n1 > n2) ]

row(disp1, label, disp2, higherWins, n1, n2, noMarks) ==
    LET marked == ~noMarks /\ n1 # n2
        first  == IF higherWins THEN n1 > n2 ELSE n1 < n2
    IN  [ disp1 |-> disp1, label |-> label, disp2 |-> disp2,
          mark1 |-> marked /\ first,
          mark2 |-> marked /\ ~first ]

SunshineRow(m1, m2, h, d) ==
    IF "sunshine_hours" \notin h
    THEN << row(Hours(m1.sunshine_hours), "Sunshine", Hours(m2.sunshine_hours), TRUE,
                Num(m1.sunshine_hours), Num(m2.sunshine_hours), "sunshine_hours" \in d) >>
    ELSE << >>

DaylightRow(m1, m2, h, d) ==
    IF "avg_daylight_hours" \notin h /\ m1.avg_daylight_hours # Null /\ m2.avg_daylight_hours # Null
    THEN << row(Hours(m1.avg_daylight_hours), "Daylight", Hours(m2.avg_daylight_hours), TRUE,
                Num(m1.avg_daylight_hours), Num(m2.avg_daylight_hours),
                "avg_daylight_hours" \in d) >>
    ELSE << >>

SunsetRow(m1, m2, h, d) ==
    IF "avg_sunset_min" \notin h /\ m1.avg_sunset_min # Null /\ m2.avg_sunset_min # Null
    THEN LET sDiff == Abs(Num(m1.avg_sunset_min) - Num(m2.avg_sunset_min))
             sN1   == IF sDiff > SunsetThreshold THEN Num(m1.avg_sunset_min) ELSE 0
             sN2   == IF sDiff > SunsetThreshold THEN Num(m2.avg_sunset_min) ELSE 0
         IN  << row(minutesToTime(Num(m1.avg_sunset_min)), "Avg sunset",
                    minutesToTime(Num(m2.avg_sunset_min)), TRUE, sN1, sN2,
                    "avg_sunset_min" \in d) >>
    ELSE << >>

RainyRow(m1, m2, h, d) ==
    IF "rainy_days" \notin h
    THEN << row(Plain(Num(m1.rainy_days)), "Rainy days", Plain(Num(m2.rainy_days)), FALSE,
                Num(m1.rainy_days), Num(m2.rainy_days), "rainy_days" \in d) >>
    ELSE << >>

OvercastRow(m1, m2, h, d) ==
    IF "overcast_days" \notin h
    THEN << row(Plain(Num(m1.overcast_days)), "Overcast days", Plain(Num(m2.overcast_days)), TRUE,
                Num(m1.overcast_days), Num(m2.overcast_days), "overcast_days" \in d) >>
    ELSE << >>

CozyRow(m1, m2, h, d) ==
    IF /\ "cozy_overcast_days" \notin h
       /\ (OrZero(m1.cozy_overcast_days) > 0 \/ OrZero(m2.cozy_overcast_days) > 0)
    THEN << row(Plain(OrZero(m1.cozy_overcast_days)), "Cozy overcast",
                Plain(OrZero(m2.cozy_overcast_days)), TRUE,
                OrZero(m1.cozy_overcast_days), OrZero(m2.cozy_overcast_days),
                "cozy_overcast_days" \in d) >>
    ELSE << >>

\* the four rows shown only when either side has such days
ActivityKeys == <<"snow_days", "freezing_days", "hot_days", "sticky_days">>

ActivityLabel(k) ==
    CASE k = "snow_days"     -> "Snow days"
      [] k = "freezing_days" -> "Freezing days"
      [] k = "hot_days"      -> "Hot days (90+)"
      [] k = "sticky_days"   -> "Sticky days (100+)"

ActivityRow_IgnoresHidden(k, m1, m2, h, d) ==
    IF Num(m1[k]) > 0 \/ Num(m2[k]) > 0
    THEN << row(Plain(Num(m1[k])), ActivityLabel(k), Plain(Num(m2[k])), FALSE,
                Num(m1[k]), Num(m2[k]), k \in d) >>
    ELSE << >>

ActivityRow(k, m1, m2, h, d) ==
    IF k \notin h /\ (Num(m1[k]) > 0 \/ Num(m2[k]) > 0)
    THEN << row(Plain(Num(m1[k])), ActivityLabel(k), Plain(Num(m2[k])), FALSE,
                Num(m1[k]), Num(m2[k]), k \in d) >>
    ELSE << >>

fmtHL(m) ==
    (IF m.avg_high # Null THEN <<ToString(Round(Num(m.avg_high))), "deg">> ELSE <<"--">>)
    \o <<" / ">> \o
    (IF m.avg_low # Null THEN <<ToString(Round(Num(m.avg_low))), "deg">> ELSE <<"--">>)

AvgHLRow(m1, m2) ==
    [ disp1 |-> fmtHL(m1), label |-> "Avg H / L", disp2 |-> fmtHL(m2),
      mark1 |-> FALSE, mark2 |-> FALSE ]

renderCompRows(m1, m2, hidden, displayOnly) ==
    SunshineRow(m1, m2, hidden, displayOnly)
    \o DaylightRow(m1, m2, hidden, displayOnly)
    \o SunsetRow(m1, m2, hidden, displayOnly)
    \o RainyRow(m1, m2, hidden, displayOnly)
    \o OvercastRow(m1, m2, hidden, displayOnly)
    \o CozyRow(m1, m2, hidden, displayOnly)
    \o Flatten([i \in 1..Len(ActivityKeys) |->
                   ActivityRow(ActivityKeys[i], m1, m2, hidden, displayOnly)])
    \o << AvgHLRow(m1, m2) >>

\* ------------------------------------------------------------------------
\* app.js: the rows of one month card in the single-file build
\* ------------------------------------------------------------------------
_row(disp1, label, disp2, higherWins, n1, n2) ==
    LET marked == n1 # n2
        first  == IF higherWins THEN n1 > n2 ELSE n1 < n2
    IN  [ disp1 |-> disp1, label |-> label, disp2 |-> disp2,
          mark1 |-> marked /\ first,
          mark2 |-> marked /\ ~first ]

_renderCompRows(m1, m2) ==
    << _row(Hours(m1.sunshine_hours), "Sunshine", Hours(m2.sunshine_hours), TRUE,
            Num(m1.sunshine_hours), Num(m2.sunshine_hours)) >>
    \o (IF m1.avg_daylight_hours # Null /\ m2.avg_daylight_hours # Null
        THEN << _row(Hours(m1.avg_daylight_hours), "Daylight", Hours(m2.avg_daylight_hours), TRUE,
                     Num(m1.avg_daylight_hours), Num(m2.avg_daylight_hours)) >>
        ELSE << >>)
    \o (IF m1.avg_sunset_min # Null /\ m2.avg_sunset_min # Null
        THEN LET sDiff == Abs(Num(m1.avg_sunset_min) - Num(m2.avg_sunset_min))
                 sN1   == IF sDiff >= SunsetThreshold THEN Num(m1.avg_sunset_min) ELSE 0
                 sN2   == IF sDiff >= SunsetThreshold THEN Num(m2.avg_sunset_min) ELSE 0
             IN  << _row(minutesToTime(Num(m1.avg_sunset_min)), "Avg sunset",
                         minutesToTime(Num(m2.avg_sunset_min)), TRUE, sN1, sN2) >>
        ELSE << >>)
    \o << _row(Plain(Num(m1.rainy_days)), "Rainy days", Plain(Num(m2.rainy_days)), FALSE,
               Num(m1.rainy_days), Num(m2.rainy_days)) >>
    \o << _row(Plain(Num(m1.overcast_days)), "Overcast days", Plain(Num(m2.overcast_days)), TRUE,
               Num(m1.overcast_days), Num(m2.overcast_days)) >>
    \o Flatten([i \in 1..Len(ActivityKeys) |->
                   LET k == ActivityKeys[i]
                   IN  IF Num(m1[k]) > 0 \/ Num(m2[k]) > 0
                       THEN << _row(Plain(Num(m1[k])), ActivityLabel(k), Plain(Num(m2[k])), FALSE,
                                    Num(m1[k]), Num(m2[k])) >>
                       ELSE << >>])
    \o << AvgHLRow(m1, m2) >>

\* ------------------------------------------------------------------------
\* comparison.js: the comparison view.  JavaScript arrays live in a heap (a
\* sequence of arrays, an array's identity being its index) so that a
\* copy and an in-place operation differ; data.months is such an array.
\* A month "YYYY-MM" is [y, mo]; split("-") and parseInt read its fields.
\* ------------------------------------------------------------------------
MonthNamesShort ==
    <<"Jan", "Feb", "Mar", "Apr", "May", "Jun", "Jul", "Aug", "Sep", "Oct", "Nov", "Dec">>

MonthNamesLong ==
    <<"January", "February", "March", "April", "May", "June",
      "July", "August", "September", "October", "November", "December">>

\* a.localeCompare(b) < 0 for two zero-padded YYYY-MM strings
MonthLess(a, b) == a.y < b.y \/ (a.y = b.y /\ a.mo < b.mo)

\* [...a]: a new array with the elements of a
Spread(heap, a) == Append(heap, heap[a])

ReverseInPlace(heap, a) == [heap EXCEPT ![a] = Reverse(@)]

Push(heap, a, x) == [heap EXCEPT ![a] = Append(@, x)]

RECURSIVE InsertDesc(_, _)
InsertDesc(m, s) ==
    IF s = << >> THEN << m >>
    ELSE IF MonthLess(Head(s).month, m.month) THEN << m >> \o s
    ELSE << Head(s) >> \o InsertDesc(m, Tail(s))

\* the stable sort by (a, b) => b.month.localeCompare(a.month)
RECURSIVE SortDesc(_)
SortDesc(s) == IF s = << >> THEN << >> ELSE InsertDesc(s[Len(s)], SortDesc(SubSeq(s, 1, Len(s) - 1)))

SortInPlace(heap, a) == [heap EXCEPT ![a] = SortDesc(@)]

\* the arrays the caller still holds once a function's locals are gone
Returned(heap, caller) == SubSeq(heap, 1, Len(caller))

wlt(w, l, t) ==
    IF t # 0 THEN <<ToString(w), "-", ToString(l), "-", ToString(t)>>
    ELSE <<ToString(w), "-", ToString(l)>>

isSweep(m) ==
    m.winner # "tie" /\ m.metric_ties = 0 /\ (m.loc1_score = 0 \/ m.loc2_score = 0)

fmtMonth(m) == <<MonthNamesShort[m.month.mo], ToString(m.month.y)>>

renderMonthCard(m, hidden, displayOnly) ==
    [ label  |-> fmtMonth(m),
      winner |-> IF m.winner = "tie" THEN "Tie" ELSE m.winner,
      record |-> IF m.winner = "loc2" THEN wlt(m.loc2_score, m.loc1_score, m.metric_ties)
                 ELSE wlt(m.loc1_score, m.loc2_score, m.metric_ties),
      sunsetNote |-> IF m.sunset_diff # Null /\ m.sunset_diff # <<0>> /\ "avg_sunset_min" \notin hidden
                     THEN <<IF Num(m.sunset_diff) > 0 THEN "loc1" ELSE "loc2",
                            ToString(Abs(Num(m.sunset_diff)))>>
                     ELSE << >>,
      rows   |-> renderCompRows(m.loc1, m.loc2, hidden, displayOnly) ]

\* the loop over monthsDesc; run is << >> (null) or << the open sweep run >>
RECURSIVE ChronoLoop(_, _, _)
ChronoLoop(ms, groups, run) ==
    IF ms = << >>
    THEN IF run # << >> THEN Append(groups, run[1]) ELSE groups
    ELSE LET m == Head(ms)
         IN  IF isSweep(m) /\ run # << >> /\ run[1].sweeper = m.winner
             THEN ChronoLoop(Tail(ms), groups, << [run[1] EXCEPT !.months = Append(@, m)] >>)
             ELSE LET closed == IF run # << >> THEN Append(groups, run[1]) ELSE groups
                  IN  IF isSweep(m)
                      THEN ChronoLoop(Tail(ms), closed,
                                      << [type |-> "sweep", sweeper |-> m.winner, months |-> << m >>] >>)
                      ELSE ChronoLoop(Tail(ms),
                                      Append(closed, [type |-> "single", sweeper |-> "none",
                                                      months |-> << m >>]),
                                      << >>)

ChronoGroupHtml(g, hidden, displayOnly) ==
    IF g.type = "single" \/ Len(g.months) = 1
    THEN [ kind |-> "card", label |-> << >>, count |-> 1,
           cards |-> << renderMonthCard(g.months[1], hidden, displayOnly) >> ]
    ELSE LET earliest == g.months[Len(g.months)]
             latest   == g.months[1]
         IN  [ kind  |-> "sweep",
               label |-> IF earliest.month.y = latest.month.y
                         THEN <<MonthNamesShort[earliest.month.mo], "-",
                                MonthNamesShort[latest.month.mo], ToString(latest.month.y)>>
                         ELSE fmtMonth(earliest) \o <<"-">> \o fmtMonth(latest),
               count |-> Len(g.months),
               cards |-> [i \in 1..Len(g.months) |->
                             renderMonthCard(g.months[i], hidden, displayOnly)] ]

\* the variant that reverses data.months itself
renderChronoMonths_ReversesInPlace(heap, data, hidden, displayOnly) ==
    LET h2     == ReverseInPlace(heap, data.months)
        groups == ChronoLoop(h2[data.months], << >>, << >>)
    IN  [ heap |-> Returned(h2, heap),
          html |-> [i \in 1..Len(groups) |-> ChronoGroupHtml(groups[i], hidden, displayOnly)] ]

renderChronoMonths(heap, data, hidden, displayOnly) ==
    LET h1         == Spread(heap, data.months)
        monthsDesc == Len(h1)
        h2         == ReverseInPlace(h1, monthsDesc)
        groups     == ChronoLoop(h2[monthsDesc], << >>, << >>)
    IN  [ heap |-> Returned(h2, heap),
          html |-> [i \in 1..Len(groups) |-> ChronoGroupHtml(groups[i], hidden, displayOnly)] ]

\* isSweep and the grouping loop of _renderComparison (app.js)
_isSweep(m) ==
    m.winner # "tie" /\ (m.loc1_score = 0 \/ m.loc2_score = 0)

RECURSIVE _ChronoLoop(_, _, _)
_ChronoLoop(ms, groups, run) ==
    IF ms = << >>
    THEN IF run # << >> THEN Append(groups, run[1]) ELSE groups
    ELSE LET m == Head(ms)
         IN  IF _isSweep(m) /\ run # << >> /\ run[1].sweeper = m.winner
             THEN _ChronoLoop(Tail(ms), groups, << [run[1] EXCEPT !.months = Append(@, m)] >>)
             ELSE LET closed == IF run # << >> THEN Append(groups, run[1]) ELSE groups
                  IN  IF _isSweep(m)
                      THEN _ChronoLoop(Tail(ms), closed,
                                       << [type |-> "sweep", sweeper |-> m.winner, months |-> << m >>] >>)
                      ELSE _ChronoLoop(Tail(ms),
                                       Append(closed, [type |-> "single", sweeper |-> "none",
                                                       months |-> << m >>]),
                                       << >>)

\* for (const m of data.months) buckets[moIdx].push(m), from position i on
RECURSIVE FillBuckets(_, _, _, _)
FillBuckets(heap, months, buckets, i) ==
    IF i > Len(heap[months]) THEN heap
    ELSE LET m     == heap[months][i]
             moIdx == m.month.mo - 1
         IN  FillBuckets(Push(heap, buckets[moIdx + 1], m), months, buckets, i + 1)

\* number of entries won by w
WonBy(entries, w) == Cardinality({i \in 1..Len(entries) : entries[i].winner = w})

MonthGroupHtml(moIdx, entries, hidden, displayOnly) ==
    LET loc1w      == WonBy(entries, "loc1")
        loc2w      == WonBy(entries, "loc2")
        tieCount   == Len(entries) - loc1w - loc2w
        sweepCount == Cardinality({i \in 1..Len(entries) : isSweep(entries[i])})
    IN  [ kind  |-> "month",
          label |-> << MonthNamesLong[moIdx + 1] >>
                    \o (IF loc1w > loc2w THEN <<"loc1">> \o wlt(loc1w, loc2w, tieCount)
                        ELSE IF loc2w > loc1w THEN <<"loc2">> \o wlt(loc2w, loc1w, tieCount)
                        ELSE <<"Tied">> \o wlt(loc1w, loc2w, tieCount))
                    \o (IF sweepCount # 0 THEN <<ToString(sweepCount), "sweep">> ELSE << >>),
          count |-> Len(entries),
          cards |-> [i \in 1..Len(entries) |-> renderMonthCard(entries[i], hidden, displayOnly)] ]

\* the loop for (let i = 0; i < 12; i++), from i on
RECURSIVE MonthLoop(_, _, _, _, _, _, _)
MonthLoop(heap, buckets, curMonth, i, html, hidden, displayOnly) ==
    IF i >= 12 THEN [heap |-> heap, html |-> html]
    ELSE LET moIdx   == (curMonth + i) % 12
             entries == buckets[moIdx + 1]
         IN  IF Len(heap[entries]) = 0
             THEN MonthLoop(heap, buckets, curMonth, i + 1, html, hidden, displayOnly)
             ELSE LET h1 == SortInPlace(heap, entries)
                  IN  MonthLoop(h1, buckets, curMonth, i + 1,
                                Append(html, MonthGroupHtml(moIdx, h1[entries], hidden, displayOnly)),
                                hidden, displayOnly)

\* curMonth is new Date().getMonth()
renderMonthlyGroups(heap, data, hidden, displayOnly, curMonth) ==
    LET h1      == heap \o [i \in 1..12 |-> << >>]
        buckets == [i \in 1..12 |-> Len(heap) + i]
        h2      == FillBuckets(h1, data.months, buckets, 1)
        done    == MonthLoop(h2, buckets, curMonth, 0, << >>, hidden, displayOnly)
    IN  [ heap |-> Returned(done.heap, heap), html |-> done.html ]

renderCompChart(heap, data) ==
    [i \in 1..Len(heap[data.months]) |->
        LET m == heap[data.months][i]
        IN  [year |-> m.month.y, monthIdx |-> m.month.mo - 1, net |-> m.loc1_score - m.loc2_score]]

\* view_style is "" when the comparison has none
renderComparison_TiesIgnoreLosses(heap, data, view_style, hidden, displayOnly, curMonth) ==
    LET totalMonths == Len(heap[data.months])
        ties        == totalMonths - data.loc1_wins
        summary     == IF data.overall_winner = "loc1"
                       THEN <<"loc1">> \o wlt(data.loc1_wins, data.loc2_wins, ties)
                       ELSE IF data.overall_winner = "loc2"
                       THEN <<"loc2">> \o wlt(data.loc2_wins, data.loc1_wins, ties)
                       ELSE <<"Tied">> \o wlt(data.loc1_wins, data.loc2_wins, ties)
        viewStyle   == IF view_style = "" THEN "chrono" ELSE view_style
        body        == IF viewStyle = "monthly"
                       THEN renderMonthlyGroups(heap, data, hidden, displayOnly, curMonth)
                       ELSE renderChronoMonths(heap, data, hidden, displayOnly)
    IN  [ heap |-> body.heap,
          html |-> [ summary |-> summary, chart |-> renderCompChart(heap, data),
                     active |-> viewStyle, groups |-> body.html ] ]

renderComparison(heap, data, view_style, hidden, displayOnly, curMonth) ==
    LET totalMonths == Len(heap[data.months])
        ties        == totalMonths - data.loc1_wins - data.loc2_wins
        summary     == IF data.overall_winner = "loc1"
                       THEN <<"loc1">> \o wlt(data.loc1_wins, data.loc2_wins, ties)
                       ELSE IF data.overall_winner = "loc2"
                       THEN <<"loc2">> \o wlt(data.loc2_wins, data.loc1_wins, ties)
                       ELSE <<"Tied">> \o wlt(data.loc1_wins, data.loc2_wins, ties)
        viewStyle   == IF view_style = "" THEN "chrono" ELSE view_style
        body        == IF viewStyle = "monthly"
                       THEN renderMonthlyGroups(heap, data, hidden, displayOnly, curMonth)
                       ELSE renderChronoMonths(heap, data, hidden, displayOnly)
    IN  [ heap |-> body.heap,
          html |-> [ summary |-> summary, chart |-> renderCompChart(heap, data),
                     active |-> viewStyle, groups |-> body.html ] ]

\* ------------------------------------------------------------------------
\* Initial state: after `await loadSettings(); renderView()` with three saved
\* locations and no saved comparison (loadSettings creates the first one)
\* ------------------------------------------------------------------------
FirstComparison ==
    [loc1 |-> Locations[1], loc2 |-> Locations[2], hidden_metrics |-> <<>>, display_metrics |-> <<>>]

Loaded ==
    [ locations |-> Locations,
      comparisons |-> << FirstComparison >>,
      cardOrder |-> [i \in 1..Len(Locations) |-> [type |-> "loc", key |-> LocKey(Locations[i])]]
                    \o << [type |-> "comp", key |-> comparisonKey(FirstComparison)] >>,
      map |-> << >>,
      showing |-> -1,
      container |-> [kind |-> "empty"],
      inflight |-> EmptyBag,
      awaiting |-> {},
      overlay |-> ClosedOverlay,
      saved |-> << FirstComparison >>,
      handled |-> [from |-> "none", by |-> "none", shape |-> "none"],
      hist |-> << FALSE >>,
      active |-> << >>, weather |-> << >>, background |-> {},
      script |-> "modules", touch |-> << >> ]

RowsIdle == rowIn = << >> /\ rowOut = << >> /\ legacyOut = << >>

\* the pure functions are not exercised
KeyIdle == keyComp = FirstComparison /\ keyPrev = FirstComparison /\ keyOut = <<>>

ViewIdle ==
    /\ arrays = << >> /\ viewData = << >> /\ compViewStyle = "" /\ viewSaved = ""
    /\ viewOut = << >> /\ viewLog = << >>

ScoreIdle == scoreIn = << >> /\ scoreData = << >> /\ scoreOut = << >>

OrderIdle == settings = << >> /\ savedCardOrder = << >> /\ loads = 0

ChronoIdle == chronoIn = << >> /\ chronoOut = << >> /\ chronoLegacy = << >>

StreakIdle == streakIn = << >> /\ streakOut = << >> /\ streakLegacy = << >>

SearchIdle == searchFirst = << >> /\ searchLog = << >>

LateIdle == ScoreIdle /\ OrderIdle /\ ChronoIdle /\ StreakIdle /\ SearchIdle

PureIdle == KeyIdle /\ RowsIdle /\ ViewIdle /\ LateIdle

Init == Starts(renderView(Loaded)) /\ PureIdle

\* ------------------------------------------------------------------------
\* Actions.  The user clicks only while no handler is suspended on a save.
\* ------------------------------------------------------------------------
Step(w) == BagCardinality(w.inflight) <= MaxInflight /\ Becomes(w)

Idle == awaiting = {}

\* click on a comparison card of the dashboard
NavigateToComparison(idx) ==
    /\ Idle /\ NoOverlay(World)
    /\ container.kind = "dashboard" /\ idx \in DOMAIN container.subs
    /\ Step(navigateToComparison(World, idx))

\* back button
NavigateToDashboard ==
    /\ Idle /\ NoOverlay(World)
    /\ container.kind \notin {"dashboard", "empty"}
    /\ Step(navigateToDashboard(World))

\* settings button
ClickSettings ==
    /\ Idle /\ NoOverlay(World)
    /\ Step(IF showingComparisonIdx >= 0 THEN openCompConfig(World, showingComparisonIdx)
            ELSE openSettings(World))

CloseSettings ==
    /\ Idle /\ overlay.settings /\ ~overlay.config
    /\ Step([World EXCEPT !.overlay.settings = FALSE])

\* "vs" button of a comparison in the settings list
ClickCompConfig(ci) ==
    /\ Idle /\ overlay.settings /\ ~overlay.config
    /\ ci \in CompCardIdxs(World)
    /\ Step(openCompConfig(World, ci))

CloseCompConfig ==
    /\ Idle /\ overlay.config
    /\ Step([World EXCEPT !.overlay = [ClosedOverlay EXCEPT !.settings = overlay.settings]])

ToggleMetric(m) ==
    /\ Idle /\ overlay.config
    /\ Step(ClickMetricRow(World, m))

\* after `await nav.saveComparisons()` in the metric row click handler
ToggleResume ==
    \E r \in awaiting :
        /\ r.op = "toggle"
        /\ Step(IF showingComparisonIdx = r.ci
                THEN renderComparisonView(Resumed(World), r.ci)
                ELSE Resumed(World))

\* delete button of the comparison card at cardOrder[cardIdx] (0-based)
DeleteClick(cardIdx) ==
    /\ Idle /\ overlay.settings /\ ~overlay.config
    /\ cardIdx + 1 \in 1..Len(cardOrder)
    /\ cardOrder[cardIdx + 1].type = "comp"
    /\ FindCompIdx(World, cardOrder[cardIdx + 1].key) >= 0
    /\ Step(Await([World EXCEPT !.cardOrder = RemoveAt(@, cardIdx + 1)],
                  [op |-> "delete1", key |-> cardOrder[cardIdx + 1].key]))

\* after `await nav.saveCardOrder()`
DeleteResume1 ==
    \E r \in awaiting :
        /\ r.op = "delete1"
        /\ LET ci == FindCompIdx(World, r.key)
               w1 == IF ci >= 0
                     THEN [World EXCEPT !.comparisons = RemoveAt(@, ci + 1),
                                        !.hist = RemoveAt(@, ci + 1)]
                     ELSE World
           IN  Step(Await(saveComparisons(w1), [op |-> "delete2"]))

\* after `await nav.saveComparisons()`
DeleteResume2 ==
    \E r \in awaiting :
        /\ r.op = "delete2"
        /\ Step(renderDashboard(openSettings(Resumed(World))))

\* the location picked in a slot of the add-comparison overlay (0 = none)
Slot(i) == IF i = 0 THEN << >> ELSE Locations[i]

\* save button of the add-comparison overlay
SaveNewComparison(c) ==
    /\ Idle /\ NoOverlay(World)
    /\ container.kind \in {"dashboard", "empty"}
    /\ Step(saveNewComparison(World, Slot(c[1]), Slot(c[2])))

\* after `await Promise.all([saveComparisons(), saveCardOrder()])`
AddedResume ==
    \E r \in awaiting :
        /\ r.op = "added"
        /\ Step(renderDashboard(Resumed(World)))

Received(r) == [World EXCEPT !.inflight = @ (-) SetToBag({r})]

\* the summary loader storing the body whatever the status
CompleteSummary_StoresFailure(r, outcome) ==
    /\ r.op = "summary"
    /\ Step(LET data == ResponseData(r, IF outcome \in {"notok", "throw"} THEN "malformed" ELSE outcome)
                 w1   == [Received(r) EXCEPT !.map = (r.cacheKey :> data) @@ @]
            IN  IF outcome \in {"notok", "throw"}
                THEN setCompSub([w1 EXCEPT !.handled =
                                    [from |-> "fetch", by |-> "summary", shape |-> outcome]],
                                r.idx, "Unable to load")
                ELSE SummariseInto(w1, r.idx, data, "fetch"))

\* the response to a summary request arrives (or the fetch fails)
CompleteSummary(r, outcome) ==
    /\ r.op = "summary"
    /\ Step(IF outcome \in {"notok", "throw"}
            THEN setCompSub([Received(r) EXCEPT !.handled =
                                [from |-> "fetch", by |-> "summary", shape |-> outcome]],
                            r.idx, "Unable to load")
            ELSE LET data == ResponseData(r, outcome)
                 IN  SummariseInto([Received(r) EXCEPT !.map = (r.cacheKey :> data) @@ @],
                                   r.idx, data, "fetch"))

\* the response to a view request arrives (or the fetch fails)
CompleteView(r, outcome) ==
    /\ r.op = "view"
    /\ Step(IF outcome \in {"notok", "throw"}
            THEN [Received(r) EXCEPT !.container = [kind |-> "failed"],
                                     !.handled = [from |-> "fetch", by |-> "view", shape |-> outcome]]
            ELSE LET data == ResponseData(r, outcome)
                     w1   == [Received(r) EXCEPT !.map = (r.cacheKey :> data) @@ @]
                 IN  IF w1.showing # r.idx
                     THEN [w1 EXCEPT !.handled = [from |-> "fetch", by |-> "none", shape |-> outcome]]
                     ELSE IF data.shape = "malformed"
                          THEN [renderComparisonContent(w1, data, r.idx, "fetch")
                                    EXCEPT !.container = [kind |-> "failed"]]
                          ELSE renderComparisonContent(w1, data, r.idx, "fetch"))

\* 200 with a ComparisonResult, 200 with a body without months, non-OK
\* status, rejected fetch or unparsable body
Outcomes == {"ok", "malformed", "notok", "throw"}

Next ==
    \/ \E idx \in 0..(Len(comparisons) - 1) : NavigateToComparison(idx)
    \/ NavigateToDashboard
    \/ ClickSettings
    \/ CloseSettings
    \/ \E ci \in 0..(Len(comparisons) - 1) : ClickCompConfig(ci)
    \/ CloseCompConfig
    \/ \E m \in ToggleMetrics : ToggleMetric(m)
    \/ ToggleResume
    \/ \E i \in 0..(Len(cardOrder) - 1) : DeleteClick(i)
    \/ DeleteResume1
    \/ DeleteResume2
    \/ \E c \in AddChoices : SaveNewComparison(c)
    \/ AddedResume
    \/ \E r \in BagToSet(inflight), o \in Outcomes : CompleteSummary(r, o)
    \/ \E r \in BagToSet(inflight), o \in Outcomes : CompleteView(r, o)

Spec == Init /\ [][Next]_vars

\* ------------------------------------------------------------------------
\* compCacheKey on its own (specification SpecKey): the key is recomputed
\* after each change of the comparison it is computed for
\* ------------------------------------------------------------------------
\* metrics whose mode varies in the configurations compared below
KeyMetrics == {"sunshine_hours", "rainy_days", "avg_sunset_min"}

\* the configurations the overlay can produce for ordered pairs of Locations
ConfigUniverse ==
    { [ loc1 |-> Locations[p[1]], loc2 |-> Locations[p[2]],
        hidden_metrics |-> RowsWithMode([m \in MetricKeys |->
                              IF m \in KeyMetrics THEN md[m] ELSE "scored"], "hidden"),
        display_metrics |-> RowsWithMode([m \in MetricKeys |->
                              IF m \in KeyMetrics THEN md[m] ELSE "scored"], "display") ] :
      p \in {q \in (1..Len(Locations)) \X (1..Len(Locations)) : q[1] # q[2]},
      md \in [KeyMetrics -> Modes] }

InitKey ==
    /\ Starts(Loaded)
    /\ keyComp \in ConfigUniverse
    /\ keyPrev = keyComp
    /\ keyOut = compCacheKey(keyComp)
    /\ RowsIdle
    /\ ViewIdle
    /\ LateIdle

KeyStep(comp) ==
    /\ keyComp' = comp
    /\ keyPrev' = keyComp
    /\ keyOut' = compCacheKey(comp)
    /\ UNCHANGED << mainVars, rowVars, viewVars, lateVars >>

Without(s, m) == FilterSeq(s, Range(s) \ {m})

SwapLocations ==
    /\ keyComp' = [keyComp EXCEPT !.loc1 = keyComp.loc2, !.loc2 = keyComp.loc1]
    /\ keyPrev' = keyComp
    /\ keyOut' = compCacheKey(keyComp')
    /\ UNCHANGED << mainVars, rowVars, viewVars, lateVars >>

MoveToDisplay(m) ==
    /\ m \in Range(keyComp.hidden_metrics)
    /\ KeyStep([keyComp EXCEPT !.hidden_metrics = Without(@, m),
                               !.display_metrics = Append(@, m)])

MoveToHidden(m) ==
    /\ m \in Range(keyComp.display_metrics)
    /\ KeyStep([keyComp EXCEPT !.display_metrics = Without(@, m),
                               !.hidden_metrics = Append(@, m)])

ScoreMetric(m) ==
    /\ m \in NotScoredSet(keyComp)
    /\ KeyStep([keyComp EXCEPT !.display_metrics = Without(@, m),
                               !.hidden_metrics = Without(@, m)])

HideMetric(m) ==
    /\ m \notin NotScoredSet(keyComp)
    /\ KeyStep([keyComp EXCEPT !.hidden_metrics = Append(@, m)])

NextKey ==
    \/ SwapLocations
    \/ \E m \in KeyMetrics : MoveToDisplay(m)
    \/ \E m \in KeyMetrics : MoveToHidden(m)
    \/ \E m \in KeyMetrics : ScoreMetric(m)
    \/ \E m \in KeyMetrics : HideMetric(m)

SpecKey == InitKey /\ [][NextKey]_vars

\* C1: a change of the comparison that keeps its unordered location pair
\* and the union of hidden_metrics and display_metrics (swapping loc1 and
\* loc2, moving a metric between the two lists) keeps its cache key.
C1_KeyDependsOnPairAndUnion ==
    [][ ( /\ UnorderedPair(keyComp') = UnorderedPair(keyComp)
          /\ NotScoredSet(keyComp') = NotScoredSet(keyComp) )
        => keyOut' = keyOut ]_vars

\* a metric has moved between the lists of a comparison whose locations and
\* non-scored metrics are both listed out of sort order, and the key stayed
C1_Witness ==
    /\ keyPrev.hidden_metrics # keyComp.hidden_metrics
    /\ NotScoredSet(keyPrev) = NotScoredSet(keyComp)
    /\ NotScoredList(keyComp) # SortNames(NotScoredList(keyComp))
    /\ KeyLess(LocKey(keyComp.loc2), LocKey(keyComp.loc1))
    /\ keyOut = compCacheKey(keyPrev)

\* ------------------------------------------------------------------------
\* renderCompRows and _renderCompRows on their own (specification SpecRows):
\* one month whose metric k takes every pair of values, in every class
\* ------------------------------------------------------------------------
\* largest day count tried for the count metrics
MaxDays == 2

BaseMonth1 ==
    [ sunshine_hours |-> <<200>>, rainy_days |-> <<5>>, overcast_days |-> <<8>>,
      cozy_overcast_days |-> <<0>>, snow_days |-> <<0>>, freezing_days |-> <<1>>,
      hot_days |-> <<0>>, sticky_days |-> <<0>>, avg_daylight_hours |-> <<10>>,
      avg_sunset_min |-> <<1100>>, avg_high |-> <<705>>, avg_low |-> <<>> ]

BaseMonth2 ==
    [ sunshine_hours |-> <<150>>, rainy_days |-> <<10>>, overcast_days |-> <<8>>,
      cozy_overcast_days |-> <<0>>, snow_days |-> <<0>>, freezing_days |-> <<0>>,
      hot_days |-> <<0>>, sticky_days |-> <<0>>, avg_daylight_hours |-> <<11>>,
      avg_sunset_min |-> <<1125>>, avg_high |-> <<>>, avg_low |-> <<524>> ]

MetricValues(k) ==
    CASE k = "sunshine_hours"     -> { <<150>>, <<200>> }
      [] k = "avg_daylight_hours" -> { Null, <<9>>, <<10>> }
      [] k = "avg_sunset_min"     -> { Null, <<1095>>, <<1104>>, <<1105>>, <<1106>>, <<1120>> }
      [] k = "cozy_overcast_days" -> { Null } \cup { <<n>> : n \in 0..MaxDays }
      [] OTHER                    -> { <<n>> : n \in 0..MaxDays }

\* metrics of class c when k has mode md and every other metric mode other
ClassSet(k, md, other, c) == { x \in MetricKeys : (IF x = k THEN md ELSE other) = c }

RowInputs ==
    UNION { { [ m1 |-> [BaseMonth1 EXCEPT ![k] = v1],
                m2 |-> [BaseMonth2 EXCEPT ![k] = v2],
                hidden |-> ClassSet(k, md, other, "hidden"),
                displayOnly |-> ClassSet(k, md, other, "display") ] :
              v1 \in MetricValues(k), v2 \in MetricValues(k), md \in Modes, other \in Modes } :
            k \in MetricKeys }

InitRows ==
    /\ Starts(Loaded)
    /\ KeyIdle
    /\ rowIn \in RowInputs
    /\ rowOut = << >>
    /\ legacyOut = << >>
    /\ ViewIdle
    /\ LateIdle

RenderRows ==
    /\ rowOut = << >>
    /\ rowOut' = renderCompRows(rowIn.m1, rowIn.m2, rowIn.hidden, rowIn.displayOnly)
    /\ UNCHANGED << mainVars, keyVars, viewVars, lateVars, rowIn, legacyOut >>

RenderLegacyRows ==
    /\ legacyOut = << >>
    /\ legacyOut' = _renderCompRows(rowIn.m1, rowIn.m2)
    /\ UNCHANGED << mainVars, keyVars, viewVars, lateVars, rowIn, rowOut >>

NextRows == RenderRows \/ RenderLegacyRows

SpecRows == InitRows /\ [][NextRows]_vars

Label(k) ==
    CASE k = "sunshine_hours"     -> "Sunshine"
      [] k = "avg_daylight_hours" -> "Daylight"
      [] k = "avg_sunset_min"     -> "Avg sunset"
      [] k = "rainy_days"         -> "Rainy days"
      [] k = "overcast_days"      -> "Overcast days"
      [] k = "cozy_overcast_days" -> "Cozy overcast"
      [] OTHER                    -> ActivityLabel(k)

RowsOf(out, k) == { i \in 1..Len(out) : out[i].label = Label(k) }

Marked(r) == r.mark1 \/ r.mark2

SunsetDiff == Abs(Num(rowIn.m1.avg_sunset_min) - Num(rowIn.m2.avg_sunset_min))

\* the sunset rule on the rows `out`, where the metric is scored iff `scored`
SunsetRule(out, scored) ==
    \A i \in RowsOf(out, "avg_sunset_min") :
        /\ Marked(out[i]) => SunsetDiff > 10
        /\ (SunsetDiff > 10 /\ scored) =>
              /\ out[i].mark1 = (Num(rowIn.m1.avg_sunset_min) > Num(rowIn.m2.avg_sunset_min))
              /\ out[i].mark2 = (Num(rowIn.m2.avg_sunset_min) > Num(rowIn.m1.avg_sunset_min))

\* C7: on the avg_sunset_min row a winner is marked only when the two
\* averages differ by strictly more than 10 minutes, and then the later
\* sunset is marked; this holds of renderCompRows and of _renderCompRows.
C7_SunsetWinnerOnlyBeyondTenMinutes ==
    /\ SunsetRule(rowOut, "avg_sunset_min" \notin rowIn.displayOnly)
    /\ SunsetRule(legacyOut, TRUE)

HigherWinsKeys == {"sunshine_hours", "overcast_days", "cozy_overcast_days", "avg_daylight_hours"}

LowerWinsKeys == {"rainy_days", "snow_days", "freezing_days", "hot_days", "sticky_days"}

Val(m, k) == IF k = "cozy_overcast_days" THEN OrZero(m[k]) ELSE Num(m[k])

Scored(k) == k \notin rowIn.hidden /\ k \notin rowIn.displayOnly

\* C8: on the row of a scored metric the side with the strictly greater
\* value is marked for the higher-is-better metrics and the side with the
\* strictly lesser value for the lower-is-better ones; equal values mark
\* neither side, and both sides are never marked.
C8_MarkFollowsDirection ==
    \A k \in HigherWinsKeys \cup LowerWinsKeys :
        Scored(k) =>
            \A i \in RowsOf(rowOut, k) :
                LET v1 == Val(rowIn.m1, k)
                    v2 == Val(rowIn.m2, k)
                IN  /\ rowOut[i].mark1 = (IF k \in HigherWinsKeys THEN v1 > v2 ELSE v1 < v2)
                    /\ rowOut[i].mark2 = (IF k \in HigherWinsKeys THEN v2 > v1 ELSE v2 < v1)
                    /\ ~(rowOut[i].mark1 /\ rowOut[i].mark2)

\* a scored lower-is-better row whose second side has fewer days and is marked
C8_Witness ==
    /\ Scored("snow_days")
    /\ \E i \in RowsOf(rowOut, "snow_days") :
          /\ rowOut[i].mark2 /\ ~rowOut[i].mark1
          /\ Num(rowIn.m2.snow_days) < Num(rowIn.m1.snow_days)

\* C9 as stated: hidden -> no row; display-only -> a row without marks;
\* scored -> a row, marked when the two values differ.
C9_ThreeClasses ==
    rowOut # << >> =>
        \A k \in MetricKeys :
            /\ k \in rowIn.hidden => RowsOf(rowOut, k) = {}
            /\ (k \in rowIn.displayOnly /\ k \notin rowIn.hidden) =>
                  /\ Cardinality(RowsOf(rowOut, k)) = 1
                  /\ \A i \in RowsOf(rowOut, k) : ~Marked(rowOut[i])
            /\ Scored(k) =>
                  /\ Cardinality(RowsOf(rowOut, k)) = 1
                  /\ \A i \in RowsOf(rowOut, k) :
                        rowIn.m1[k] # rowIn.m2[k] => Marked(rowOut[i])

\* the row of a metric that is not hidden is left out in these cases
Omitted(k) ==
    CASE k \in {"avg_daylight_hours", "avg_sunset_min"} ->
            rowIn.m1[k] = Null \/ rowIn.m2[k] = Null
      [] k \in {"cozy_overcast_days", "snow_days", "freezing_days", "hot_days", "sticky_days"} ->
            ~(OrZero(rowIn.m1[k]) > 0 \/ OrZero(rowIn.m2[k]) > 0)
      [] OTHER -> FALSE

Decisive(k) ==
    IF k = "avg_sunset_min" THEN SunsetDiff > 10
    ELSE Val(rowIn.m1, k) # Val(rowIn.m2, k)

\* C9 (amended): hidden -> no row; display-only -> a row without marks;
\* scored -> a row, marked on exactly one side when the two values differ
\* (avg_sunset_min: differ by more than 10 minutes); in the last two
\* classes the row is left out when avg_daylight_hours or avg_sunset_min is
\* null on a side, or when cozy_overcast_days, snow_days, freezing_days,
\* hot_days or sticky_days is above 0 on neither side.
C9_ThreeClassesWithOmittedRows ==
    rowOut # << >> =>
        \A k \in MetricKeys :
            /\ k \in rowIn.hidden => RowsOf(rowOut, k) = {}
            /\ (k \notin rowIn.hidden /\ Omitted(k)) => RowsOf(rowOut, k) = {}
            /\ (k \notin rowIn.hidden /\ ~Omitted(k)) =>
                  /\ Cardinality(RowsOf(rowOut, k)) = 1
                  /\ \A i \in RowsOf(rowOut, k) :
                        /\ rowOut[i].disp1 # rowOut[i].disp2 => rowIn.m1[k] # rowIn.m2[k]
                        /\ k \in rowIn.displayOnly => ~Marked(rowOut[i])
                        /\ k \notin rowIn.displayOnly =>
                              /\ Marked(rowOut[i]) = Decisive(k)
                              /\ ~(rowOut[i].mark1 /\ rowOut[i].mark2)

\* a display-only snow row is shown without a mark although the values
\* differ, next to scored rows that carry marks
C9_Witness ==
    /\ "snow_days" \in rowIn.displayOnly
    /\ rowIn.m1.snow_days # rowIn.m2.snow_days
    /\ \E i \in RowsOf(rowOut, "snow_days") : ~Marked(rowOut[i])
    /\ \E i \in RowsOf(rowOut, "rainy_days") : Marked(rowOut[i])

\* ------------------------------------------------------------------------
\* The comparison view on its own (specification SpecRender): a cached
\* ComparisonResult is rendered, then the view-style buttons are clicked
\* ------------------------------------------------------------------------
\* longest window of months in a result
MaxMonths == 13

\* renderings of one result that are followed
MaxRenders == 2

MonthOutcomes ==
    { [winner |-> "loc1", loc1_score |-> 3, loc2_score |-> 0, metric_ties |-> 0],
      [winner |-> "loc2", loc1_score |-> 0, loc2_score |-> 3, metric_ties |-> 0],
      [winner |-> "loc1", loc1_score |-> 2, loc2_score |-> 1, metric_ties |-> 0],
      [winner |-> "tie",  loc1_score |-> 1, loc2_score |-> 1, metric_ties |-> 1] }

StartMonths == { [y |-> 2023, mo |-> 11], [y |-> 2024, mo |-> 1] }

\* n consecutive months from start on, oldest first, with outcomes that
\* repeat the pattern
MonthsFrom(start, n, pattern) ==
    [i \in 1..n |->
        LET t == start.y * 12 + (start.mo - 1) + (i - 1)
            o == pattern[((i - 1) % Len(pattern)) + 1]
        IN  [ month |-> [y |-> t \div 12, mo |-> (t % 12) + 1],
              loc1 |-> BaseMonth1, loc2 |-> BaseMonth2,
              winner |-> o.winner, loc1_score |-> o.loc1_score,
              loc2_score |-> o.loc2_score, metric_ties |-> o.metric_ties,
              sunset_diff |-> << Num(BaseMonth1.avg_sunset_min) - Num(BaseMonth2.avg_sunset_min) >> ]]

\* the ComparisonResult whose months array is heap[1]
ResultFor(months) ==
    LET w1 == WonBy(months, "loc1")
        w2 == WonBy(months, "loc2")
    IN  [ months |-> 1, loc1_wins |-> w1, loc2_wins |-> w2,
          overall_winner |-> IF w1 > w2 THEN "loc1" ELSE IF w2 > w1 THEN "loc2" ELSE "tie" ]

InitRender ==
    /\ Starts(Loaded)
    /\ KeyIdle
    /\ RowsIdle
    /\ LateIdle
    /\ \E start \in StartMonths, n \in 1..MaxMonths, pattern \in [1..2 -> MonthOutcomes] :
          /\ arrays = << MonthsFrom(start, n, pattern) >>
          /\ viewData = ResultFor(MonthsFrom(start, n, pattern))
    /\ compViewStyle = ""
    /\ viewSaved = ""
    /\ viewOut = << >>
    /\ viewLog = << >>

Rendered(view_style, curMonth) ==
    LET r == renderComparison(arrays, viewData, view_style, {}, {}, curMonth)
    IN  /\ arrays' = r.heap
        /\ viewOut' = r.html
        /\ viewLog' = Append(viewLog, r.html.active)
        /\ UNCHANGED << mainVars, keyVars, rowVars, lateVars, viewData >>

\* renderComparisonContent for the cached result
ShowComparison(curMonth) ==
    /\ viewLog = << >>
    /\ Rendered(compViewStyle, curMonth)
    /\ UNCHANGED << compViewStyle, viewSaved >>

\* click on a .comp-view-btn
ClickViewBtn(style, curMonth) ==
    /\ viewLog # << >>
    /\ Len(viewLog) < MaxRenders
    /\ compViewStyle' = style
    /\ viewSaved' = style
    /\ Rendered(style, curMonth)

NextRender ==
    \/ \E curMonth \in 0..11 : ShowComparison(curMonth)
    \/ \E style \in {"chrono", "monthly"}, curMonth \in 0..11 : ClickViewBtn(style, curMonth)

SpecRender == InitRender /\ [][NextRender]_vars

Chronological(ms) ==
    \A i \in 1..(Len(ms) - 1) : MonthLess(ms[i].month, ms[i + 1].month)

\* C10: no rendering, in either grouping and after any switching of
\* view_style, changes the months array of the cached result, which stays
\* in chronological order.
C10_RenderingKeepsMonths ==
    [][ /\ arrays'[viewData'.months] = arrays[viewData.months]
        /\ Chronological(arrays'[viewData'.months]) ]_vars

\* the result was rendered chronologically and then by month, with a
\* calendar month that holds two years' entries
C10_Witness ==
    /\ Len(viewLog) >= 2
    /\ viewLog[Len(viewLog) - 1] = "chrono"
    /\ viewLog[Len(viewLog)] = "monthly"
    /\ \E i \in 1..Len(viewOut.groups) : viewOut.groups[i].count >= 2
    /\ Len(arrays[viewData.months]) >= 13

\* ------------------------------------------------------------------------
\* Properties of the comparison cache (specification Spec)
\* ------------------------------------------------------------------------
\* hidden=a,b,c as the server splits it
ParseHidden(param) ==
    IF param = <<>> THEN {} ELSE {param[i] : i \in {j \in 2..Len(param) : param[j] # ","}}

KeyCollisions ==
    { uv \in ConfigUniverse \X ConfigUniverse :
        /\ \/ UnorderedPair(uv[1]) # UnorderedPair(uv[2])
           \/ NotScoredSet(uv[1]) # NotScoredSet(uv[2])
        /\ compCacheKey(uv[1]) = compCacheKey(uv[2]) }

\* C2: configurations that differ in their unordered location pair or in
\* their non-scored set (hidden + display) have different cache keys, and
\* the entry found under a comparison's key was fetched for that pair with
\* exactly that comparison's non-scored metrics as the hidden list.
C2_KeysUniquePerPairAndConfig ==
    /\ KeyCollisions = {}
    /\ \A i \in 1..Len(comparisons) :
          LET c == comparisons[i]
              k == compCacheKey(c)
          IN  k \in DOMAIN comparisonDataMap =>
                /\ {comparisonDataMap[k].loc1, comparisonDataMap[k].loc2} = UnorderedPair(c)
                /\ ParseHidden(comparisonDataMap[k].hidden) = NotScoredSet(c)

\* a comparison with a non-scored metric is served from the cache while an
\* entry for another configuration of the same pair is stored as well
C2_Witness ==
    \E i \in 1..Len(comparisons) :
        /\ NotScoredSet(comparisons[i]) # {}
        /\ compCacheKey(comparisons[i]) \in DOMAIN comparisonDataMap
        /\ comparisonKey(comparisons[i]) \in DOMAIN comparisonDataMap
        /\ container.kind = "content"
        /\ handled.from = "cache"

\* the metric row click handler has just run (it is suspended on the save)
ToggleStep == awaiting = {} /\ \E r \in awaiting' : r.op = "toggle"

\* renderComparisonView ran for comparison i (1-based) after a toggle
ViewAfterToggle(i) ==
    /\ Len(toggleHist') = Len(toggleHist)
    /\ i \in 1..Len(toggleHist)
    /\ toggleHist[i] /\ ~toggleHist'[i]

\* the toggle removes the entry under the pre-toggle key, and only that
\* entry, in the step that changes the lists and issues the save
ToggleRemovesOldEntry ==
    ToggleStep =>
        LET c      == comparisons[overlay.ci + 1]
            oldKey == compCacheKey(c)
        IN  /\ comparisonDataMap' =
                  [k \in (DOMAIN comparisonDataMap) \ {oldKey} |-> comparisonDataMap[k]]
            /\ comparisons'[overlay.ci + 1] # c
            /\ savedComparisons' = comparisons'

ViewRequest(i) ==
    LET c == comparisons[i]
    IN  [ op |-> "view", idx |-> i - 1, cacheKey |-> compCacheKey(c),
          loc1 |-> c.loc1, loc2 |-> c.loc2, hidden |-> hiddenParam(c) ]

\* C3 as stated: the toggle removes the entry under the pre-toggle key and
\* the next view of the comparison issues a new /api/comparison request.
C3_NextViewAlwaysRefetches ==
    [][ /\ ToggleRemovesOldEntry
        /\ \A i \in 1..Len(toggleHist) :
              ViewAfterToggle(i) =>
                 /\ inflight' = inflight (+) SetToBag({ViewRequest(i)})
                 /\ container'.kind = "loading" ]_vars

\* C3 (amended): the toggle removes the entry under the pre-toggle key in
\* the step that changes hidden_metrics/display_metrics and issues the
\* save; the next view of the comparison issues a new /api/comparison
\* request for the new configuration unless comparisonDataMap holds an
\* entry under the comparison's current key, and then it renders that entry.
C3_NextViewRefetchesUnlessStored ==
    [][ /\ ToggleRemovesOldEntry
        /\ \A i \in 1..Len(toggleHist) :
              ViewAfterToggle(i) =>
                 LET k == compCacheKey(comparisons[i])
                 IN  IF k \in DOMAIN comparisonDataMap
                     THEN /\ inflight' = inflight
                          /\ handled' = [from |-> "cache", by |-> "view",
                                         shape |-> comparisonDataMap[k].shape]
                          /\ handled'.shape = "ok" =>
                                container' = [kind |-> "content", idx |-> i - 1,
                                              data |-> comparisonDataMap[k]]
                     ELSE /\ inflight' = inflight (+) SetToBag({ViewRequest(i)})
                          /\ container' = [kind |-> "loading", idx |-> i - 1] ]_vars

\* a toggle made from the comparison view has removed the entry the view
\* was rendered from
C3_Witness ==
    \E r \in awaiting :
        /\ r.op = "toggle"
        /\ container.kind = "content" /\ container.idx = r.ci
        /\ r.ci = showingComparisonIdx
        /\ toggleHist[r.ci + 1]
        /\ DOMAIN comparisonDataMap = {}

\* C4: the entry stored under a comparison's cache key is the response to a
\* request for that comparison's loc1 then loc2 with its current non-scored
\* metrics as the hidden list.
C4_CacheHitIsFreshFetch ==
    \A i \in 1..Len(comparisons) :
        LET c == comparisons[i]
            k == compCacheKey(c)
        IN  k \in DOMAIN comparisonDataMap =>
              /\ comparisonDataMap[k].loc1 = c.loc1
              /\ comparisonDataMap[k].loc2 = c.loc2
              /\ ParseHidden(comparisonDataMap[k].hidden) = NotScoredSet(c)

\* C5: a cached value without the ComparisonResult shape is never handed to
\* the summary or the view renderer.
C5_MalformedCacheValueNotRendered ==
    ~(handled.from = "cache" /\ handled.shape = "malformed")

\* C6: comparisonDataMap changes only by a toggle's removal or by storing
\* the whole body of a 200 response under the request's key, and a request
\* that fails leaves it unchanged.
C6_OnlyWholeSuccessfulResponsesStored ==
    [][ /\ comparisonDataMap' # comparisonDataMap =>
              \/ ToggleStep
              \/ \E r \in BagToSet(inflight), shape \in {"ok", "malformed"} :
                    /\ inflight' = inflight (-) SetToBag({r})
                    /\ comparisonDataMap' = (r.cacheKey :> ResponseData(r, shape)) @@ comparisonDataMap
        /\ \A r \in BagToSet(inflight) :
              ( /\ inflight' = inflight (-) SetToBag({r})
                /\ handled'.from = "fetch"
                /\ handled'.shape \in {"notok", "throw"} )
              => comparisonDataMap' = comparisonDataMap ]_vars

\* a failed request has been dropped while another request for a key that
\* is already stored is still in flight
C6_Witness ==
    /\ handled.from = "fetch" /\ handled.shape \in {"notok", "throw"}
    /\ \E r \in BagToSet(inflight) : r.cacheKey \in DOMAIN comparisonDataMap

\* ------------------------------------------------------------------------
\* The server's answer to /api/comparison (Month Scorer, Aggregator) and the
\* comparison view rendered from it (specification SpecScore)
\* ------------------------------------------------------------------------
\* months of history compared
MaxScoredMonths == 2

\* the vote one scored metric casts: "loc1", "loc2", "tie", or "none" when a
\* side has no value
MetricVote_NullTies(k, v1, v2) ==
    IF v1 = Null \/ v2 = Null THEN "tie"
    ELSE IF Num(v1) = Num(v2) THEN "tie"
    ELSE IF k = "avg_sunset_min" /\ Abs(Num(v1) - Num(v2)) <= SunsetThreshold THEN "tie"
    ELSE IF (k \in {"rainy_days", "snow_days", "freezing_days", "hot_days", "sticky_days"})
            = (Num(v1) < Num(v2))
    THEN "loc1" ELSE "loc2"

MetricVote(k, v1, v2) ==
    IF v1 = Null \/ v2 = Null THEN "none"
    ELSE IF Num(v1) = Num(v2) THEN "tie"
    ELSE IF k = "avg_sunset_min" /\ Abs(Num(v1) - Num(v2)) <= SunsetThreshold THEN "tie"
    ELSE IF (k \in {"rainy_days", "snow_days", "freezing_days", "hot_days", "sticky_days"})
            = (Num(v1) < Num(v2))
    THEN "loc1" ELSE "loc2"

MonthScorer_FirstWinsDraws(month, m1, m2, scored) ==
    LET Votes(side) == Cardinality({k \in scored : MetricVote(k, m1[k], m2[k]) = side})
    IN  [ month |-> month, loc1 |-> m1, loc2 |-> m2,
          winner |-> IF Votes("loc1") >= Votes("loc2") THEN "loc1" ELSE "loc2",
          loc1_score |-> Votes("loc1"), loc2_score |-> Votes("loc2"),
          metric_ties |-> Votes("tie"),
          sunset_diff |-> IF m1.avg_sunset_min = Null \/ m2.avg_sunset_min = Null THEN Null
                          ELSE << Num(m1.avg_sunset_min) - Num(m2.avg_sunset_min) >> ]

MonthScorer(month, m1, m2, scored) ==
    LET Votes(side) == Cardinality({k \in scored : MetricVote(k, m1[k], m2[k]) = side})
    IN  [ month |-> month, loc1 |-> m1, loc2 |-> m2,
          winner |-> IF Votes("loc1") > Votes("loc2") THEN "loc1"
                     ELSE IF Votes("loc2") > Votes("loc1") THEN "loc2" ELSE "tie",
          loc1_score |-> Votes("loc1"), loc2_score |-> Votes("loc2"),
          metric_ties |-> Votes("tie"),
          sunset_diff |-> IF m1.avg_sunset_min = Null \/ m2.avg_sunset_min = Null THEN Null
                          ELSE << Num(m1.avg_sunset_min) - Num(m2.avg_sunset_min) >> ]

\* the ComparisonResult for a request: its months oldest first
Aggregator(req) ==
    LET scored == MetricKeys \ (req.hidden \cup req.display)
        months == [i \in 1..Len(req.months) |->
                     MonthScorer([y |-> 2024 + (i + 9) \div 12, mo |-> ((i + 9) % 12) + 1],
                                 req.months[i].loc1, req.months[i].loc2, scored)]
        w1 == WonBy(months, "loc1")
        w2 == WonBy(months, "loc2")
    IN  [ months |-> months, loc1_wins |-> w1, loc2_wins |-> w2,
          overall_winner |-> IF w1 > w2 THEN "loc1" ELSE IF w2 > w1 THEN "loc2" ELSE "tie" ]

InitScore ==
    /\ Starts(Loaded)
    /\ KeyIdle /\ RowsIdle /\ ViewIdle /\ OrderIdle /\ ChronoIdle /\ StreakIdle /\ SearchIdle
    /\ scoreIn = [months |-> << >>, hidden |-> {}, display |-> {}]
    /\ scoreData = << >>
    /\ scoreOut = << >>

\* the comparison is viewed when a further month of history has passed:
\* the server answers the request, renderComparison shows the answer
CompareLocations(rain1, rain2, sunsets, hidden, display) ==
    LET month == [ loc1 |-> [BaseMonth1 EXCEPT !.rainy_days = <<rain1>>,
                                               !.avg_sunset_min = sunsets[1]],
                   loc2 |-> [BaseMonth2 EXCEPT !.rainy_days = <<rain2>>,
                                               !.avg_sunset_min = sunsets[2]] ]
        req   == [months |-> Append(scoreIn.months, month), hidden |-> hidden, display |-> display]
        data  == Aggregator(req)
    IN  /\ Len(scoreIn.months) < MaxScoredMonths
        /\ scoreIn' = req
        /\ scoreData' = data
        /\ scoreOut' = renderComparison(<< data.months >>, [data EXCEPT !.months = 1],
                                        "", hidden, display, 0).html
        /\ UNCHANGED scoreRest

NextScore ==
    \E rain1 \in 0..1, rain2 \in 0..1,
       sunsets \in { <<Null, <<1100>> >>, << <<1100>>, <<1095>> >>,
                     << <<1120>>, <<1095>> >>, << <<1095>>, <<1106>> >> },
       hidden \in { {}, MetricKeys, {"sunshine_hours"} }, display \in { {}, {"freezing_days"} } :
        CompareLocations(rain1, rain2, sunsets, hidden, display)

SpecScore == InitScore /\ [][NextScore]_vars

\* metrics of the request's scored set with a value on both sides in month i
ComparedIn(i) ==
    { k \in MetricKeys \ (scoreIn.hidden \cup scoreIn.display) :
        scoreIn.months[i].loc1[k] # Null /\ scoreIn.months[i].loc2[k] # Null }

ScoredMonths == IF scoreData = << >> THEN << >> ELSE scoreData.months

\* C11: the winner of every MonthResult is loc1 exactly when loc1_score is
\* the greater score, loc2 exactly when loc2_score is, and tie exactly when
\* the scores are equal (0-0 included).
C11_WinnerFollowsScores ==
    \A i \in DOMAIN ScoredMonths :
        LET m == ScoredMonths[i]
        IN  /\ (m.winner = "loc1") <=> (m.loc1_score > m.loc2_score)
            /\ (m.winner = "loc2") <=> (m.loc2_score > m.loc1_score)
            /\ (m.winner = "tie") <=> (m.loc1_score = m.loc2_score)

\* a month loc1 won is followed by a month tied at equal scores above zero
C11_Witness ==
    /\ Len(ScoredMonths) = 2
    /\ ScoredMonths[1].winner = "loc1" /\ ScoredMonths[1].loc1_score > ScoredMonths[1].loc2_score
    /\ ScoredMonths[2].winner = "tie" /\ ScoredMonths[2].loc1_score > 0

\* C12: in every MonthResult the two scores and metric_ties add up to the
\* number of scored metrics that have a value on both sides; a metric
\* without a value on a side adds no point and no tie.
C12_ScoresAndTiesCountComparedMetrics ==
    \A i \in DOMAIN ScoredMonths :
        ScoredMonths[i].loc1_score + ScoredMonths[i].loc2_score + ScoredMonths[i].metric_ties
          = Cardinality(ComparedIn(i))

\* a scored avg_sunset_min has no value on one side of a month
C12_Witness ==
    \E i \in DOMAIN ScoredMonths :
        /\ "avg_sunset_min" \notin scoreIn.hidden \cup scoreIn.display
        /\ scoreIn.months[i].loc1.avg_sunset_min = Null
        /\ Cardinality(ComparedIn(i)) = Cardinality(MetricKeys) - 1

\* the tie count in the title of the rendered view ("0" when none is shown)
ShownTies == IF Len(scoreOut.summary) = 6 THEN scoreOut.summary[6] ELSE "0"

\* C13: loc1_wins and loc2_wins count the months won by each side,
\* overall_winner is the side with strictly more wins and tie when they are
\* equal, and the tie count the view shows is the number of tied months,
\* never a negative number.
C13_WinsCountMonthsWon ==
    scoreData # << >> =>
        /\ scoreData.loc1_wins = Cardinality({i \in DOMAIN ScoredMonths : ScoredMonths[i].winner = "loc1"})
        /\ scoreData.loc2_wins = Cardinality({i \in DOMAIN ScoredMonths : ScoredMonths[i].winner = "loc2"})
        /\ (scoreData.overall_winner = "loc1") <=> (scoreData.loc1_wins > scoreData.loc2_wins)
        /\ (scoreData.overall_winner = "loc2") <=> (scoreData.loc2_wins > scoreData.loc1_wins)
        /\ (scoreData.overall_winner = "tie") <=> (scoreData.loc1_wins = scoreData.loc2_wins)
        /\ ShownTies = ToString(Cardinality({i \in DOMAIN ScoredMonths : ScoredMonths[i].winner = "tie"}))

\* loc2 has won one month of two and the other is a tie, shown as "1-0-1"
C13_Witness ==
    /\ scoreData # << >>
    /\ scoreOut.summary = << "loc2", "1", "-", "0", "-", "1" >>
    /\ \E i \in DOMAIN ScoredMonths : ScoredMonths[i].winner = "tie"

\* ------------------------------------------------------------------------
\* Background refreshes against navigation (specification SpecRefresh): the
\* page has run its DOMContentLoaded handler under either script
\* ------------------------------------------------------------------------
InitRefresh ==
    /\ \E s \in {"modules", "app.js"} :
          Starts([renderView([Loaded EXCEPT !.script = s]) EXCEPT
                    !.background = {[op |-> "refreshCurrent"], [op |-> "refreshAlerts", at |-> 1]}])
    /\ PureIdle

\* click on a location card of the dashboard
ClickLocationCard(i) ==
    /\ Idle /\ NoOverlay(World)
    /\ container.kind = "dashboard"
    /\ Step(navigateToDetail(World, locations[i]))

\* visibilitychange to visible
VisibilityChange ==
    /\ [op |-> "refreshCurrent"] \notin background
    /\ Step(refreshCurrent(World))

RefreshedCurrent(ok) ==
    /\ [op |-> "refreshCurrent"] \in background
    /\ Step(refreshedCurrent(World, ok))

FetchedAlerts(at) ==
    /\ [op |-> "refreshAlerts", at |-> at] \in background
    /\ Step(fetchedAlerts(World, at))

LoadedWeather(loc, ok) ==
    /\ [op |-> "loadWeather", loc |-> loc] \in background
    /\ Step(loadedWeather(World, loc, ok))

NextRefresh ==
    \/ \E idx \in 0..(Len(comparisons) - 1) : NavigateToComparison(idx)
    \/ NavigateToDashboard
    \/ \E i \in 1..Len(locations) : ClickLocationCard(i)
    \/ VisibilityChange
    \/ \E ok \in BOOLEAN : RefreshedCurrent(ok)
    \/ \E at \in 1..Len(locations) : FetchedAlerts(at)
    \/ \E loc \in Range(locations), ok \in BOOLEAN : LoadedWeather(loc, ok)
    \/ \E r \in BagToSet(inflight), outcome \in Outcomes : CompleteSummary(r, outcome)
    \/ \E r \in BagToSet(inflight), outcome \in Outcomes : CompleteView(r, outcome)

SpecRefresh == InitRefresh /\ [][NextRefresh]_vars

\* a refreshCurrent call or the last fetch of refreshAlerts completes
RefreshCompletes ==
    \/ [op |-> "refreshCurrent"] \in background \ background'
    \/ [op |-> "refreshAlerts", at |-> Len(locations)] \in background \ background'

\* C14: when a background refreshCurrent or refreshAlerts completes while a
\* detail view or a comparison view is shown (activeLocation set or
\* showingComparisonIdx >= 0), the displayed view is left unchanged; the
\* dashboard is re-rendered only when the dashboard is shown.
C14_RefreshKeepsTheViewShown ==
    [][ ( /\ RefreshCompletes
          /\ (activeLocation # << >> \/ showingComparisonIdx >= 0) )
        => container' = container ]_vars

\* ------------------------------------------------------------------------
\* The comparison config overlay on its own (specification SpecConfig): the
\* settings list is open over the dashboard, the saved comparison has any
\* classification of three of the metrics
\* ------------------------------------------------------------------------
ConfigMetrics == {"sunshine_hours", "rainy_days", "avg_sunset_min"}

InitConfig ==
    /\ \E md \in [ConfigMetrics -> Modes] :
          LET modes == [m \in MetricKeys |-> IF m \in ConfigMetrics THEN md[m] ELSE "scored"]
              comp  == [FirstComparison EXCEPT !.hidden_metrics = RowsWithMode(modes, "hidden"),
                                               !.display_metrics = RowsWithMode(modes, "display")]
          IN  Starts(openSettings(renderView(
                  [Loaded EXCEPT !.comparisons = << comp >>, !.saved = << comp >>])))
    /\ PureIdle

NextConfig ==
    \/ \E ci \in 0..(Len(comparisons) - 1) : ClickCompConfig(ci)
    \/ CloseCompConfig
    \/ \E m \in ConfigMetrics : ToggleMetric(m)
    \/ ToggleResume

SpecConfig == InitConfig /\ [][NextConfig]_vars

\* a metric row click handler has run up to its save
RowClicked == \E r \in awaiting' \ awaiting : r.op = "toggle"

\* C15: a click on a metric row moves that row, and no other, one step along
\* scored -> display -> hidden -> scored, so that two more clicks restore the
\* mode it had; after the click hidden_metrics lists exactly the rows whose
\* mode is hidden and display_metrics exactly those whose mode is display,
\* and no metric is in both lists.
C15_ClickCyclesModeAndRebuildsLists ==
    [][ RowClicked =>
          LET comp == comparisons'[overlay.ci + 1]
          IN  /\ \E m \in MetricKeys :
                    /\ overlay'.modes[m] =
                          [scored |-> "display", display |-> "hidden", hidden |-> "scored"][overlay.modes[m]]
                    /\ NextMode(NextMode(overlay'.modes[m])) = overlay.modes[m]
                    /\ \A x \in MetricKeys \ {m} : overlay'.modes[x] = overlay.modes[x]
              /\ Range(comp.hidden_metrics) = {m \in MetricKeys : overlay'.modes[m] = "hidden"}
              /\ Range(comp.display_metrics) = {m \in MetricKeys : overlay'.modes[m] = "display"}
              /\ Range(comp.hidden_metrics) \cap Range(comp.display_metrics) = {} ]_vars

\* a click has just been handled: a row is hidden, another is display, and
\* the rebuilt lists are in the body of the save
C15_Witness ==
    /\ \E r \in awaiting : r.op = "toggle"
    /\ overlay.config
    /\ \E m \in ConfigMetrics : overlay.modes[m] = "hidden"
    /\ \E m \in ConfigMetrics : overlay.modes[m] = "display"
    /\ comparisons[overlay.ci + 1].hidden_metrics = RowsWithMode(overlay.modes, "hidden")
    /\ savedComparisons = comparisons

\* ------------------------------------------------------------------------
\* Swipes between the cards (specification SpecSwipe): the dashboard is
\* shown after loading, the cards are in one of the orders the user can
\* give them
\* ------------------------------------------------------------------------
\* swipes followed
MaxSwipes == 5

CardOrders ==
    LET cards == Loaded.cardOrder
    IN  { cards, Reverse(cards),
          << cards[4], cards[1], cards[2], cards[3] >>,
          << cards[2], cards[4], cards[3], cards[1] >> }

InitSwipe ==
    /\ \E order \in CardOrders : Starts(renderView([Loaded EXCEPT !.cardOrder = order]))
    /\ PureIdle

Swipe(dir) ==
    /\ Idle /\ NoOverlay(World)
    /\ Len(touch) < MaxSwipes
    /\ Step(swipe(World, dir))

NextSwipe ==
    \/ \E dir \in {"left", "right"} : Swipe(dir)
    \/ \E loc \in Range(locations), ok \in BOOLEAN : LoadedWeather(loc, ok)
    \/ \E r \in BagToSet(inflight), outcome \in {"ok", "throw"} : CompleteSummary(r, outcome)
    \/ \E r \in BagToSet(inflight), outcome \in {"ok", "throw"} : CompleteView(r, outcome)

SpecSwipe == InitSwipe /\ [][NextSwipe]_vars

\* place in the cycle of the view navigated to: 0 for the dashboard, i for
\* the view of cardOrder[i] (1-based)
ShownCard ==
    IF showingComparisonIdx >= 0
    THEN CHOOSE i \in 0..Len(cardOrder) :
            /\ i > 0
            /\ cardOrder[i] = [type |-> "comp",
                               key |-> comparisonKey(comparisons[showingComparisonIdx + 1])]
    ELSE IF activeLocation # << >>
    THEN CHOOSE i \in 0..Len(cardOrder) :
            /\ i > 0
            /\ cardOrder[i] = [type |-> "loc", key |-> LocKey(activeLocation[1])]
    ELSE 0

Swipes(dir) == Cardinality({i \in DOMAIN touch : touch[i] = dir})

\* C16: with n cards, each left swipe moves from the dashboard to
\* cardOrder[0], from a card to the next one and from cardOrder[n-1] to the
\* dashboard, and each right swipe moves the other way round: after l left
\* and r right swipes from the dashboard the view is at place (l - r) mod
\* (n + 1) of Dashboard, cardOrder[0], ..., cardOrder[n-1], so n + 1 left
\* swipes show every card once, in order, and end on the dashboard.
C16_SwipesCycleThroughCards ==
    LET n == Len(cardOrder)
    IN  /\ showingComparisonIdx >= 0 =>
              \E i \in 1..n : cardOrder[i] = [type |-> "comp",
                                 key |-> comparisonKey(comparisons[showingComparisonIdx + 1])]
        /\ activeLocation # << >> =>
              \E i \in 1..n : cardOrder[i] = [type |-> "loc", key |-> LocKey(activeLocation[1])]
        /\ ShownCard = (Swipes("left") + n * Swipes("right")) % (n + 1)

\* n + 1 left swipes have led through all cards back to the dashboard
C16_Witness ==
    /\ touch = [i \in 1..(Len(cardOrder) + 1) |-> "left"]
    /\ Len(cardOrder) = 4
    /\ container.kind = "dashboard"
    /\ activeLocation = << >> /\ showingComparisonIdx = -1

\* ------------------------------------------------------------------------
\* Page loads (specification SpecOrder): loadSettings with any saved
\* locations, comparisons and card order, then the rest of the
\* DOMContentLoaded handler
\* ------------------------------------------------------------------------
\* cards in the saved card order
MaxSavedCards == 2

\* page loads followed
MaxLoads == 2

InitOrder ==
    /\ Starts([Loaded EXCEPT !.locations = << >>, !.comparisons = << >>, !.cardOrder = << >>,
                             !.saved = << >>, !.hist = << >>])
    /\ KeyIdle /\ RowsIdle /\ ViewIdle /\ ScoreIdle /\ ChronoIdle /\ StreakIdle /\ SearchIdle
    /\ \E nlocs \in 0..Len(Locations),
          comps \in { << >>, << FirstComparison >>,
                      << [FirstComparison EXCEPT !.loc1 = Locations[3]] >>,
                      << FirstComparison, [FirstComparison EXCEPT !.loc2 = Locations[3]] >> },
          order \in UNION { [1..n -> Range(Loaded.cardOrder) \cup
                                     {[type |-> "comp", key |-> comparisonKey(
                                          [FirstComparison EXCEPT !.loc1 = Locations[3]])]}] :
                            n \in 0..MaxSavedCards } :
          /\ \A i, j \in DOMAIN order : i # j => order[i] # order[j]
          /\ settings = [locations |-> SubSeq(Locations, 1, nlocs), comparisons |-> comps,
                         card_order |-> order]
    /\ savedCardOrder = << >>
    /\ loads = 0

\* a page load that takes the saved comparisons as they are
PageLoad_NoDefault ==
    LET locs   == settings.locations
        comps  == settings.comparisons
        r      == rebuildCardOrderIfNeeded(locs, comps, settings.card_order)
        loaded == [Loaded EXCEPT !.locations = locs, !.comparisons = comps,
                                 !.cardOrder = r.cardOrder,
                                 !.saved = IF comps # settings.comparisons THEN comps ELSE << >>,
                                 !.hist = [i \in DOMAIN comps |-> FALSE]]
    IN  /\ loads < MaxLoads
        /\ BagCardinality(renderView(loaded).inflight) <= MaxInflight
        /\ Assigns([renderView(loaded) EXCEPT !.background =
                        {[op |-> "refreshCurrent"]} \cup
                        (IF locs = << >> THEN {} ELSE {[op |-> "refreshAlerts", at |-> 1]})])
        /\ savedCardOrder' = IF r.changed THEN << r.cardOrder >> ELSE << >>
        /\ settings' = [settings EXCEPT !.comparisons = comps, !.card_order = r.cardOrder]
        /\ loads' = loads + 1
        /\ UNCHANGED orderRest

\* the DOMContentLoaded handler: loadSettings, renderView, refreshCurrent,
\* refreshAlerts; the server keeps what is posted to it
PageLoad ==
    LET locs   == settings.locations
        comps  == IF settings.comparisons = << >> /\ Len(locs) >= 2
                  THEN << [loc1 |-> locs[1], loc2 |-> locs[2],
                           hidden_metrics |-> << >>, display_metrics |-> << >>] >>
                  ELSE settings.comparisons
        r      == rebuildCardOrderIfNeeded(locs, comps, settings.card_order)
        loaded == [Loaded EXCEPT !.locations = locs, !.comparisons = comps,
                                 !.cardOrder = r.cardOrder,
                                 !.saved = IF comps # settings.comparisons THEN comps ELSE << >>,
                                 !.hist = [i \in DOMAIN comps |-> FALSE]]
    IN  /\ loads < MaxLoads
        /\ BagCardinality(renderView(loaded).inflight) <= MaxInflight
        /\ Assigns([renderView(loaded) EXCEPT !.background =
                        {[op |-> "refreshCurrent"]} \cup
                        (IF locs = << >> THEN {} ELSE {[op |-> "refreshAlerts", at |-> 1]})])
        /\ savedCardOrder' = IF r.changed THEN << r.cardOrder >> ELSE << >>
        /\ settings' = [settings EXCEPT !.comparisons = comps, !.card_order = r.cardOrder]
        /\ loads' = loads + 1
        /\ UNCHANGED orderRest

NextOrder == PageLoad

SpecOrder == InitOrder /\ [][NextOrder]_vars

\* C17: after rebuildCardOrderIfNeeded has run, every saved location and
\* every saved comparison has a cardOrder entry, every cardOrder entry refers
\* to an existing location or comparison, and the card order has been posted
\* only if it differs from the one that was loaded.
C17_RebuiltCardOrderMatchesSettings ==
    [][ loads' = loads + 1 =>
          /\ \A i \in DOMAIN locations' :
                [type |-> "loc", key |-> LocKey(locations'[i])] \in Range(cardOrder')
          /\ \A i \in DOMAIN comparisons' :
                [type |-> "comp", key |-> comparisonKey(comparisons'[i])] \in Range(cardOrder')
          /\ \A i \in DOMAIN cardOrder' :
                \/ /\ cardOrder'[i].type = "loc"
                   /\ \E j \in DOMAIN locations' : LocKey(locations'[j]) = cardOrder'[i].key
                \/ /\ cardOrder'[i].type = "comp"
                   /\ \E j \in DOMAIN comparisons' : comparisonKey(comparisons'[j]) = cardOrder'[i].key
          /\ savedCardOrder' # << >> =>
                (cardOrder' # settings.card_order /\ savedCardOrder' = << cardOrder' >>) ]_vars

\* the second load of a page whose card order begins with a comparison
\* card: all four cards are there and nothing has been posted
C17_Witness ==
    /\ loads = 2
    /\ savedCardOrder = << >>
    /\ Len(cardOrder) = 4
    /\ cardOrder[1].type = "comp"
    /\ cardOrder = settings.card_order

\* ------------------------------------------------------------------------
\* Adding comparisons (specification SpecAdd): the save button of the
\* add-comparison overlay with any two slots, from the dashboard
\* ------------------------------------------------------------------------
AddPairs == (0..Len(Locations)) \X (0..Len(Locations))

InitAdd == Init

NextAdd ==
    \/ \E c \in AddPairs : SaveNewComparison(c)
    \/ AddedResume
    \/ \E r \in BagToSet(inflight), outcome \in {"ok", "throw"} : CompleteSummary(r, outcome)

SpecAdd == InitAdd /\ [][NextAdd]_vars

\* a slot is empty, both slots hold the same location, or a comparison of
\* the same two locations exists
Rejected(c) ==
    \/ c[1] = 0 \/ c[2] = 0 \/ c[1] = c[2]
    \/ \E i \in DOMAIN comparisons :
          {comparisons[i].loc1, comparisons[i].loc2} = {Locations[c[1]], Locations[c[2]]}

\* C18: a save that is rejected (a slot unselected, the same location twice,
\* or a pair that is already compared, in either order) leaves comparisons
\* and cardOrder unchanged; an accepted save appends exactly one comparison
\* and one comp card with that comparison's key; so comparisons never holds a
\* comparison of a location with itself nor two comparisons of the same
\* unordered pair.
C18_SavesKeepPairsUnique ==
    [][ /\ \A c \in AddPairs :
              Rejected(c) =>
                  /\ saveNewComparison(World, Slot(c[1]), Slot(c[2])).comparisons = comparisons
                  /\ saveNewComparison(World, Slot(c[1]), Slot(c[2])).cardOrder = cardOrder
        /\ (comparisons' # comparisons \/ cardOrder' # cardOrder) =>
              \E c \in AddPairs :
                  /\ ~Rejected(c)
                  /\ comparisons' = Append(comparisons,
                        [loc1 |-> Locations[c[1]], loc2 |-> Locations[c[2]],
                         hidden_metrics |-> << >>, display_metrics |-> << >>])
                  /\ cardOrder' = Append(cardOrder,
                        [type |-> "comp", key |-> comparisonKey(comparisons'[Len(comparisons')])])
        /\ \A i, j \in DOMAIN comparisons' :
              /\ comparisons'[i].loc1 # comparisons'[i].loc2
              /\ i # j => {comparisons'[i].loc1, comparisons'[i].loc2}
                          # {comparisons'[j].loc1, comparisons'[j].loc2} ]_vars

\* all three pairs of the three locations are compared, one of them added
\* with the later location first
C18_Witness ==
    /\ Len(comparisons) = 3
    /\ Len(cardOrder) = Len(Locations) + 3
    /\ \E i \in DOMAIN comparisons :
          KeyLess(LocKey(comparisons[i].loc2), LocKey(comparisons[i].loc1))
    /\ awaiting = {}

\* ------------------------------------------------------------------------
\* The chronological grouping on its own (specification SpecChrono), as
\* renderChronoMonths (js/comparison.js) and as _renderComparison (app.js)
\* do it, for every sequence of month outcomes
\* ------------------------------------------------------------------------
\* months in the result
MaxChronoMonths == 3

InitChrono ==
    /\ Starts(Loaded)
    /\ KeyIdle /\ RowsIdle /\ ViewIdle /\ ScoreIdle /\ OrderIdle /\ StreakIdle /\ SearchIdle
    /\ \E n \in 1..MaxChronoMonths :
          \E pattern \in [1..n -> MonthOutcomes \cup
                             {[winner |-> "loc1", loc1_score |-> 2, loc2_score |-> 0,
                               metric_ties |-> 1]}] :
              chronoIn = MonthsFrom([y |-> 2023, mo |-> 11], n, pattern)
    /\ chronoOut = << >>
    /\ chronoLegacy = << >>

RenderChrono ==
    /\ chronoOut = << >>
    /\ chronoOut' = renderChronoMonths(<< chronoIn >>, [months |-> 1], {}, {}).html
    /\ UNCHANGED << chronoRest, chronoIn, chronoLegacy >>

\* the groups of _renderComparison; a month card is given by its label
RenderLegacyChrono ==
    /\ chronoLegacy = << >>
    /\ chronoLegacy' =
          LET groups == _ChronoLoop(Reverse(chronoIn), << >>, << >>)
          IN  [i \in DOMAIN groups |->
                 [ kind  |-> IF groups[i].type = "single" \/ Len(groups[i].months) = 1
                             THEN "card" ELSE "sweep",
                   count |-> Len(groups[i].months),
                   cards |-> [j \in DOMAIN groups[i].months |->
                                 [label |-> fmtMonth(groups[i].months[j])]] ]]
    /\ UNCHANGED << chronoRest, chronoIn, chronoOut >>

NextChrono == RenderChrono \/ RenderLegacyChrono

SpecChrono == InitChrono /\ [][NextChrono]_vars

\* a sweep: a winner, no metric ties, and nothing scored by the loser
SweepMonth(m) ==
    /\ m.winner # "tie"
    /\ m.metric_ties = 0
    /\ (IF m.winner = "loc1" THEN m.loc2_score ELSE m.loc1_score) = 0

\* the group that shows the p-th most recent month
GroupOf(html, p) ==
    CHOOSE g \in DOMAIN html :
        \E c \in DOMAIN html[g].cards :
            html[g].cards[c].label = fmtMonth(Reverse(chronoIn)[p])

\* the groups list the months most recent first, each month once; two
\* neighbouring months share a group exactly when both are sweeps by the
\* same winner
GroupedBySweeps(html) ==
    LET desc == Reverse(chronoIn)
    IN  /\ Flatten([g \in DOMAIN html |-> [c \in DOMAIN html[g].cards |-> html[g].cards[c].label]])
             = [p \in DOMAIN desc |-> fmtMonth(desc[p])]
        /\ \A p \in 1..(Len(desc) - 1) :
              (GroupOf(html, p) = GroupOf(html, p + 1))
                <=> ( /\ SweepMonth(desc[p]) /\ SweepMonth(desc[p + 1])
                      /\ desc[p].winner = desc[p + 1].winner )

\* C19: the chronological view lists the months most recent first in groups,
\* each month in exactly one group; a sweep group holds only consecutive
\* sweep months of one winner and is maximal; a month is a sweep exactly when
\* it has a winner, no metric ties, and a loser's score of zero.
C19_SweepGroupsAreMaximalRuns ==
    /\ chronoOut # << >> => GroupedBySweeps(chronoOut)
    /\ chronoLegacy # << >> => GroupedBySweeps(chronoLegacy)

\* ------------------------------------------------------------------------
\* The streak subtitle of a comparison card on its own (specification
\* SpecStreak): the part of loadComparisonSummaryForIdx after the data
\* arrived (js/comparison.js 42-64) and the same part of
\* _loadComparisonSummaryForIdx (app.js 1300-1323), for every sequence of
\* month winners.  A text is a sequence of characters and fixed phrases.
\* ------------------------------------------------------------------------
\* months in the result
MaxStreakMonths == 4

\* utils: displayName
displayName(loc) ==
    LET n == IF loc.display_name # << >> THEN loc.display_name ELSE loc.name
    IN  IF loc.emoji # "" THEN << loc.emoji, " " >> \o n ELSE n

\* app.js: _displayName knows no display_name
_displayName(loc) ==
    IF loc.emoji # "" THEN << loc.emoji, " " >> \o loc.name ELSE loc.name

\* utils: esc (and _esc of app.js): the innerHTML of a text node
RECURSIVE esc(_)
esc(str) ==
    IF str = << >> THEN << >>
    ELSE (CASE Head(str) = "&" -> << "&", "a", "m", "p", ";" >>
            [] Head(str) = "<" -> << "&", "l", "t", ";" >>
            [] Head(str) = ">" -> << "&", "g", "t", ";" >>
            [] OTHER -> << Head(str) >>) \o esc(Tail(str))

\* a streak loop that passes over the ties at the recent end
StreakSubtitle_SkipsTies(months, name1, name2) ==
    LET RECURSIVE loop(_, _, _)
        loop(monthsDesc, streakWinner, streakCount) ==
            IF monthsDesc = << >> THEN [winner |-> streakWinner, count |-> streakCount]
            ELSE LET m == Head(monthsDesc)
                 IN  IF streakWinner = "" /\ m.winner # "tie"
                     THEN loop(Tail(monthsDesc), m.winner, 1)
                     ELSE IF streakWinner # "" /\ m.winner = streakWinner
                     THEN loop(Tail(monthsDesc), streakWinner, streakCount + 1)
                     ELSE IF streakWinner = ""
                     THEN loop(Tail(monthsDesc), streakWinner, streakCount)
                     ELSE [winner |-> streakWinner, count |-> streakCount]
        streak == loop(Reverse(months), "", 0)
        streakName == IF streak.winner = "loc1" THEN name1
                      ELSE IF streak.winner = "loc2" THEN name2 ELSE << >>
    IN  IF streakName # << >> /\ streak.count > 1
        THEN esc(streakName) \o << " ", ToString(streak.count), " month streak" >>
        ELSE IF streakName # << >>
        THEN esc(streakName) \o << " won last month" >>
        ELSE << "Tied last month" >>

\* lines 44-64 of loadComparisonSummaryForIdx: the text handed to setCompSub.
\* streakWinner null is ""; streakName null or "" is << >>.
StreakSubtitle(months, name1, name2) ==
    LET RECURSIVE loop(_, _, _)
        loop(monthsDesc, streakWinner, streakCount) ==
            IF monthsDesc = << >> THEN [winner |-> streakWinner, count |-> streakCount]
            ELSE LET m == Head(monthsDesc)
                 IN  IF streakWinner = "" /\ m.winner # "tie"
                     THEN loop(Tail(monthsDesc), m.winner, 1)
                     ELSE IF streakWinner # "" /\ m.winner = streakWinner
                     THEN loop(Tail(monthsDesc), streakWinner, streakCount + 1)
                     ELSE [winner |-> streakWinner, count |-> streakCount]
        streak == loop(Reverse(months), "", 0)
        streakName == IF streak.winner = "loc1" THEN name1
                      ELSE IF streak.winner = "loc2" THEN name2 ELSE << >>
    IN  IF streakName # << >> /\ streak.count > 1
        THEN esc(streakName) \o << " ", ToString(streak.count), " month streak" >>
        ELSE IF streakName # << >>
        THEN esc(streakName) \o << " won last month" >>
        ELSE << "Tied last month" >>

\* the two locations of the comparison, either way round, and the winners of
\* up to MaxStreakMonths months, oldest first
InitStreak ==
    /\ Starts(Loaded)
    /\ KeyIdle /\ RowsIdle /\ ViewIdle /\ ScoreIdle /\ OrderIdle /\ ChronoIdle /\ SearchIdle
    /\ \E n \in 0..MaxStreakMonths :
          \E winners \in [1..n -> {"loc1", "loc2", "tie"}] :
              \E swap \in BOOLEAN :
                  LET a == [name |-> << "A", "&", "B" >>, display_name |-> << >>, emoji |-> ""]
                      b == [name |-> << "C" >>, display_name |-> << "<", "D", ">" >>, emoji |-> "*"]
                  IN  streakIn = [ months |-> [i \in 1..n |-> [winner |-> winners[i]]],
                                   loc1 |-> IF swap THEN b ELSE a,
                                   loc2 |-> IF swap THEN a ELSE b ]
    /\ streakOut = << >>
    /\ streakLegacy = << >>

LoadStreak ==
    /\ streakOut = << >>
    /\ streakOut' = StreakSubtitle(streakIn.months, displayName(streakIn.loc1),
                                   displayName(streakIn.loc2))
    /\ UNCHANGED << streakRest, streakIn, streakLegacy >>

LoadLegacyStreak ==
    /\ streakLegacy = << >>
    /\ streakLegacy' = StreakSubtitle(streakIn.months, _displayName(streakIn.loc1),
                                      _displayName(streakIn.loc2))
    /\ UNCHANGED << streakRest, streakIn, streakOut >>

NextStreak == LoadStreak \/ LoadLegacyStreak

SpecStreak == InitStreak /\ [][NextStreak]_vars

\* the text a browser shows for an innerHTML of character references
RECURSIVE ShownText(_)
ShownText(html) ==
    IF html = << >> THEN << >>
    ELSE IF Len(html) >= 5 /\ SubSeq(html, 1, 5) = << "&", "a", "m", "p", ";" >>
    THEN << "&" >> \o ShownText(SubSeq(html, 6, Len(html)))
    ELSE IF Len(html) >= 4 /\ SubSeq(html, 1, 4) = << "&", "l", "t", ";" >>
    THEN << "<" >> \o ShownText(SubSeq(html, 5, Len(html)))
    ELSE IF Len(html) >= 4 /\ SubSeq(html, 1, 4) = << "&", "g", "t", ";" >>
    THEN << ">" >> \o ShownText(SubSeq(html, 5, Len(html)))
    ELSE << Head(html) >> \o ShownText(Tail(html))

\* the months of streakIn, most recent first
RecentFirst == Reverse(streakIn.months)

\* consecutive months, counted back from the most recent, won by the winner
\* of the most recent month
StreakLength ==
    IF RecentFirst = << >> THEN 0
    ELSE CHOOSE k \in 1..Len(RecentFirst) :
            /\ \A i \in 1..k : RecentFirst[i].winner = RecentFirst[1].winner
            /\ k < Len(RecentFirst) => RecentFirst[k + 1].winner # RecentFirst[1].winner

TiedLast == RecentFirst = << >> \/ RecentFirst[1].winner = "tie"

\* the subtitle shown reports the streak, with name1 and name2 the names of
\* the two locations
ReportsStreak(html, name1, name2) ==
    LET name == IF TiedLast THEN << >>
                ELSE IF RecentFirst[1].winner = "loc1" THEN name1 ELSE name2
    IN  /\ ShownText(html) = << "Tied last month" >> <=> TiedLast
        /\ ShownText(html) = name \o << " won last month" >>
              <=> (~TiedLast /\ StreakLength = 1)
        /\ ShownText(html) = name \o << " ", ToString(StreakLength), " month streak" >>
              <=> (~TiedLast /\ StreakLength > 1)

\* C20: the dashboard subtitle of a comparison reports the current streak:
\* the number of consecutive months, counted back from the most recent one,
\* won by the winner of the most recent month.  It shows 'Tied last month'
\* exactly when the most recent month is a tie or there are no months,
\* '<name> won last month' exactly when the streak is 1, and '<name> N month
\* streak' exactly when the streak N is greater than 1.
C20_SubtitleReportsCurrentStreak ==
    /\ streakOut # << >> =>
          ReportsStreak(streakOut, displayName(streakIn.loc1), displayName(streakIn.loc2))
    /\ streakLegacy # << >> =>
          ReportsStreak(streakLegacy, _displayName(streakIn.loc1), _displayName(streakIn.loc2))

\* both scripts have summarised a comparison whose two most recent months
\* went to loc1 after a tie and a loc2 month: a two month streak is shown
C20_Witness ==
    /\ streakOut # << >> /\ streakLegacy # << >>
    /\ Len(streakIn.months) = 4
    /\ [i \in 1..4 |-> streakIn.months[i].winner] = << "loc2", "tie", "loc1", "loc1" >>
    /\ StreakLength = 2
    /\ ShownText(streakOut) = displayName(streakIn.loc1) \o << " ", "2", " month streak" >>

\* ------------------------------------------------------------------------
\* Deleting cards and loading the page again (specification SpecReload):
\* the delete buttons of the settings overlay and the DOMContentLoaded
\* handler, with a server that keeps what reaches it; the summary requests
\* of the dashboard stay unanswered
\* ------------------------------------------------------------------------
\* before the first page load: the server has one to three locations, up
\* to two comparisons and no card order yet
InitReload ==
    /\ Starts([Loaded EXCEPT !.locations = << >>, !.comparisons = << >>, !.cardOrder = << >>,
                             !.saved = << >>, !.hist = << >>])
    /\ KeyIdle /\ RowsIdle /\ ViewIdle /\ ScoreIdle /\ ChronoIdle /\ StreakIdle /\ SearchIdle
    /\ \E nlocs \in 1..Len(Locations),
          comps \in { << >>, << FirstComparison >>,
                      << FirstComparison, [FirstComparison EXCEPT !.loc2 = Locations[3]] >> } :
          settings = [locations |-> SubSeq(Locations, 1, nlocs), comparisons |-> comps,
                      card_order |-> << >>]
    /\ savedCardOrder = << >>
    /\ loads = 0

\* delete button of the card at cardOrder[cardIdx] (0-based), the handler to
\* its end; stored1 and stored2 tell whether the POST of the card order and
\* the POST of the locations or comparisons reach the server
DeleteCard(cardIdx, stored1, stored2) ==
    /\ Idle /\ overlay.settings /\ ~overlay.config
    /\ cardIdx + 1 \in DOMAIN cardOrder
    /\ LET type == cardOrder[cardIdx + 1].type
           key  == cardOrder[cardIdx + 1].key
           w1   == [World EXCEPT !.cardOrder = RemoveAt(@, cardIdx + 1)]
           lis  == {i \in DOMAIN locations : LocKey(locations[i]) = key}
           li   == IF lis = {} THEN -1 ELSE (CHOOSE i \in lis : \A j \in lis : i <= j) - 1
           ci   == FindCompIdx(w1, key)
           w2   == IF type = "loc"
                   THEN IF li >= 0 THEN [w1 EXCEPT !.locations = RemoveAt(@, li + 1)] ELSE w1
                   ELSE IF type = "comp"
                   THEN saveComparisons(IF ci >= 0
                                        THEN [w1 EXCEPT !.comparisons = RemoveAt(@, ci + 1),
                                                        !.hist = RemoveAt(@, ci + 1)]
                                        ELSE w1)
                   ELSE w1
           w3   == renderDashboard(openSettings(w2))
       IN  /\ BagCardinality(w3.inflight) <= MaxInflight
           /\ Assigns(w3)
           /\ settings' =
                 [ locations   |-> IF stored2 /\ type = "loc" THEN w2.locations
                                   ELSE settings.locations,
                   comparisons |-> IF stored2 /\ type = "comp" THEN w2.comparisons
                                   ELSE settings.comparisons,
                   card_order  |-> IF stored1 THEN w1.cardOrder ELSE settings.card_order ]
           /\ UNCHANGED << savedCardOrder, loads, orderRest >>

NextReload ==
    \/ PageLoad
    \/ ClickSettings
    \/ \E cardIdx \in 0..Len(Locations), stored1, stored2 \in BOOLEAN :
          DeleteCard(cardIdx, stored1, stored2)

SpecReload == InitReload /\ [][NextReload]_vars

\* the comparison loadSettings makes of the first two saved locations
DefaultComparison(locs) ==
    [loc1 |-> locs[1], loc2 |-> locs[2], hidden_metrics |-> << >>, display_metrics |-> << >>]

\* C21: when the settings load with no saved comparison and two or more
\* saved locations, loadSettings creates exactly one comparison, of
\* locations[0] and locations[1], saves it and the card order holds one card
\* for it; after any load with two or more locations the comparison list is
\* not empty, also when the user had deleted every comparison before.
C21_LoadCreatesDefaultComparison ==
    [][ loads' = loads + 1 =>
          /\ (settings.comparisons = << >> /\ Len(settings.locations) >= 2) =>
                /\ comparisons' = << DefaultComparison(settings.locations) >>
                /\ savedComparisons' = comparisons'
                /\ settings'.comparisons = comparisons'
                /\ Cardinality({i \in DOMAIN cardOrder' :
                        cardOrder'[i] = [type |-> "comp",
                                         key |-> comparisonKey(comparisons'[1])]}) = 1
          /\ Len(locations') >= 2 => comparisons' # << >> ]_vars

\* the second load of the page created the comparison again: the server
\* had comparisons after the first load, so the user deleted every one of
\* them in between
C21_Witness ==
    /\ loads = 2
    /\ Len(locations) >= 2
    /\ savedComparisons = << DefaultComparison(locations) >>
    /\ comparisons = savedComparisons
    /\ NoOverlay(World)

\* ------------------------------------------------------------------------
\* Adding locations (specification SpecSearch): clicks on the results of the
\* search overlay, addLocation of js/search.js (and _addLocation of app.js,
\* which awaits both saves at once)
\* ------------------------------------------------------------------------
\* results clicked while the overlay is open
MaxClicks == 3

\* the results the search shows: saved places, one of them under another
\* name, and places that share only the lat or only the lon of a saved one
SearchResults ==
    Range(Locations) \cup
    { [lat |-> 1, lon |-> 2, name |-> "again"], [lat |-> 1, lon |-> 1], [lat |-> 4, lon |-> 1] }

\* an addLocation that looks for the very same object
addLocation_ComparesWholeRecord(w, loc) ==
    IF \E i \in DOMAIN w.locations : w.locations[i] = loc
    THEN w
    ELSE [w EXCEPT !.locations = Append(@, loc),
                   !.cardOrder = Append(@, [type |-> "loc", key |-> LocKey(loc)]),
                   !.awaiting = @ \cup {[op |-> "addedLoc", loc |-> loc]}]

\* addLocation up to its first await
addLocation(w, loc) ==
    IF \E i \in DOMAIN w.locations :
          w.locations[i].lat = loc.lat /\ w.locations[i].lon = loc.lon
    THEN w
    ELSE [w EXCEPT !.locations = Append(@, loc),
                   !.cardOrder = Append(@, [type |-> "loc", key |-> LocKey(loc)]),
                   !.awaiting = @ \cup {[op |-> "addedLoc", loc |-> loc]}]

\* the page as loaded with the first nlocs locations saved
InitSearch ==
    /\ \E nlocs \in 0..Len(Locations) :
          LET comps == IF nlocs >= 2 THEN << FirstComparison >> ELSE << >>
              w == [Loaded EXCEPT
                      !.locations = SubSeq(Locations, 1, nlocs),
                      !.comparisons = comps,
                      !.hist = [i \in DOMAIN comps |-> FALSE],
                      !.cardOrder = [i \in 1..nlocs |->
                                        [type |-> "loc", key |-> LocKey(Locations[i])]]
                                    \o [i \in DOMAIN comps |->
                                          [type |-> "comp", key |-> comparisonKey(comps[i])]]]
          IN  /\ Starts(renderView(w))
              /\ searchFirst = w.locations
    /\ searchLog = << >>
    /\ KeyIdle /\ RowsIdle /\ ViewIdle /\ ScoreIdle /\ OrderIdle /\ ChronoIdle /\ StreakIdle

\* click on a search result
AddLocation(loc) ==
    /\ Len(searchLog) < MaxClicks
    /\ Assigns(addLocation(World, loc))
    /\ searchLog' = Append(searchLog, loc)
    /\ UNCHANGED << searchFirst, searchRest >>

\* after `await nav.saveLocations(); await nav.saveCardOrder()`
AddedLocation(loc) ==
    /\ [op |-> "addedLoc", loc |-> loc] \in awaiting
    /\ Step(renderDashboard(refreshCurrent(
          [World EXCEPT !.awaiting = @ \ {[op |-> "addedLoc", loc |-> loc]}])))

NextSearch ==
    \/ \E loc \in SearchResults : AddLocation(loc)
    \/ \E loc \in SearchResults : AddedLocation(loc)
    \/ \E ok \in BOOLEAN : RefreshedCurrent(ok)
    \/ \E r \in BagToSet(inflight) : CompleteSummary(r, "ok")

SpecSearch == InitSearch /\ [][NextSearch]_vars

SamePlace(a, b) == a.lat = b.lat /\ a.lon = b.lon

\* the saved list that the clicks of log make of the list first: each
\* clicked result is appended unless its place is in the list already
RECURSIVE SavedAfter(_, _)
SavedAfter(first, log) ==
    IF log = << >> THEN first
    ELSE LET before == SavedAfter(first, SubSeq(log, 1, Len(log) - 1))
             loc    == log[Len(log)]
         IN  IF \E i \in DOMAIN before : SamePlace(before[i], loc)
             THEN before ELSE Append(before, loc)

\* C22: addLocation never creates a duplicate: a click on a result whose lat
\* and lon are saved already leaves locations and cardOrder as they are, any
\* other click appends exactly one location and exactly one loc card with
\* the key 'lat,lon'; no two saved locations share lat and lon.
C22_AddLocationNeverDuplicates ==
    LET added == SubSeq(locations, Len(searchFirst) + 1, Len(locations))
        cards == SubSeq(cardOrder, Len(cardOrder) - Len(added) + 1, Len(cardOrder))
    IN  /\ locations = SavedAfter(searchFirst, searchLog)
        /\ Len(cardOrder) = Len(searchFirst) + Len(comparisons) + Len(added)
        /\ cards = [i \in DOMAIN added |->
                       [type |-> "loc",
                        key |-> << ToString(added[i].lat), ",", ToString(added[i].lon) >>]]
        /\ \A i, j \in DOMAIN locations :
              SamePlace(locations[i], locations[j]) => i = j

\* three clicks on a page with one saved location: a new place, the saved
\* place under another name, and a place sharing only the lat of the saved
\* one; the first and the third were added
C22_Witness ==
    /\ searchFirst = << Locations[1] >>
    /\ searchLog = << Locations[2], [lat |-> 1, lon |-> 2, name |-> "again"],
                      [lat |-> 1, lon |-> 1] >>
    /\ locations = << Locations[1], Locations[2], [lat |-> 1, lon |-> 1] >>
    /\ Len(cardOrder) = 3
    /\ awaiting = {}

\* ------------------------------------------------------------------------
\* Responses that arrive out of order (specification Spec)
\* ------------------------------------------------------------------------
\* no comparison request is in flight and no handler waits for a save
Settled == inflight = EmptyBag /\ awaiting = {}

\* C23: once every comparison request in flight has completed, the
\* comparison view that is displayed shows data fetched for the current
\* metric configuration of its comparison: the response to a request issued
\* before a metric toggle never ends up as the rendered content.
C23_SettledViewShowsCurrentConfig ==
    ( /\ Settled
      /\ container.kind = "content"
      /\ container.idx = showingComparisonIdx
      /\ container.idx + 1 \in DOMAIN comparisons )
    => ParseHidden(container.data.hidden) = NotScoredSet(comparisons[container.idx + 1])

\* C24: a comparison request that completes after the user has navigated
\* away from its comparison (to the dashboard, to a detail view or to another
\* comparison) never changes the displayed content, whether it succeeds,
\* returns a non-OK status or throws.
C24_LateResponseLeavesContentAlone ==
    [][ \A r \in BagToSet(inflight) :
          ( /\ r.op = "view"
            /\ r.idx # showingComparisonIdx
            /\ inflight' = inflight (-) SetToBag({r}) )
          => container' = container ]_vars

====
